---------------------------- MODULE Spec2Model ----------------------------
(***************************************************************************)
(* Context engine of claude-task-master (src/context_engine) over the task *)
(* storage (src/task_storage).                                             *)
(*                                                                         *)
(* The store is the content of the PostgreSQL tables the storage classes   *)
(* read and write.  One engine request is in flight at a time; it runs as  *)
(* a sequence of steps, one per awaited storage fetch, so that writes of   *)
(* other clients can fall between two fetches.                             *)
(*                                                                         *)
(* Python values: an Optional is a sequence of length 0 (None) or 1; a     *)
(* float is an exact fraction <<numerator, denominator>> in lowest terms.  *)
(* A dict or a row is a record; the fields of every record are written in  *)
(* the order in which their names first occur in the module.               *)
(***************************************************************************)
EXTENDS Integers, Sequences, FiniteSets, TLC

VARIABLES
    tasks,                \* table tasks: id -> row, for the ids stored
    task_dependencies,    \* table task_dependencies: rows in insertion order
    task_context,         \* table task_context: id -> rows, oldest first
    ai_interactions,      \* table ai_interactions: id -> rows, oldest first
    validation_results,   \* table validation_results: id -> rows, oldest first
    performance_metrics,  \* table performance_metrics: id -> rows, oldest first
    faults,               \* storage fetches that may still fail
    writes,               \* store writes that may still happen
    pc,                   \* position of the request in flight
    req,                  \* its operation and arguments
    loc,                  \* its local variables
    result                \* what the last request returned or raised

storeVars == <<tasks, task_dependencies, task_context, ai_interactions,
               validation_results, performance_metrics>>
vars == <<tasks, task_dependencies, task_context, ai_interactions,
          validation_results, performance_metrics, faults, writes,
          pc, req, loc, result>>

---------------------------------------------------------------------------
(* Python values *)

Nothing == <<>>
Some(v) == <<v>>
IsSome(o) == o # <<>>
Val(o) == o[1]

Min(a, b) == IF a <= b THEN a ELSE b
Abs(a) == IF a < 0 THEN -a ELSE a

RECURSIVE GCD(_, _)
GCD(a, b) == IF b = 0 THEN a ELSE GCD(b, a % b)

\* the fraction n/d in lowest terms with a positive denominator
Frac(n, d) ==
    LET s == IF d < 0 THEN -1 ELSE 1
        g == GCD(Abs(n), Abs(d))
    IN  <<(s * n) \div g, (s * d) \div g>>
R(n) == <<n, 1>>
RAdd(x, y) == Frac(x[1] * y[2] + y[1] * x[2], x[2] * y[2])
RSub(x, y) == Frac(x[1] * y[2] - y[1] * x[2], x[2] * y[2])
RMul(x, y) == Frac(x[1] * y[1], x[2] * y[2])
RDiv(x, y) == Frac(x[1] * y[2], x[2] * y[1])
RLt(x, y) == x[1] * y[2] < y[1] * x[2]
RLe(x, y) == x[1] * y[2] <= y[1] * x[2]
RGt(x, y) == RLt(y, x)
RGe(x, y) == RLe(y, x)
RMax(x, y) == IF RGe(x, y) THEN x ELSE y
RMin(x, y) == IF RLe(x, y) THEN x ELSE y

\* list[:n] and list[n:] for n >= 0
Take(s, n) == SubSeq(s, 1, Min(n, Len(s)))
Drop(s, n) == SubSeq(s, Min(n, Len(s)) + 1, Len(s))
RECURSIVE Reverse(_)
Reverse(s) == IF s = <<>> THEN <<>> ELSE Append(Reverse(Tail(s)), Head(s))
RECURSIVE SumSeq(_)
SumSeq(s) == IF s = <<>> THEN 0 ELSE Head(s) + SumSeq(Tail(s))

---------------------------------------------------------------------------
(* ContextEngine: the synchronous computations *)

\* dict.get(key, default)
Get(d, key, default) == IF key \in DOMAIN d THEN d[key] ELSE default

Raised(error) == [error |-> error, raised |-> TRUE]
Returned(value) == [raised |-> FALSE, value |-> value]

\* the entry _build_dependency_context appends for a parent that was found
DependencyInfo(dep_task) == [id |-> dep_task.id, status |-> dep_task.status]

IsCompletedDep(d) == d.status = "done"
IsPendingDep(d) == d.status \in {"pending", "in-progress"}
IsBlockedDep(d) == d.status \in {"blocked", "deferred"}

\* a variant of _build_dependency_context whose readiness looks at the pending
\* parents only
DependencySummaryPendingOnly(dependencies, dependency_info) ==
    IF dependencies = <<>>
    THEN [dependencies |-> <<>>, has_dependencies |-> FALSE]
    ELSE LET completed_deps == SelectSeq(dependency_info, IsCompletedDep)
             pending_deps == SelectSeq(dependency_info, IsPendingDep)
             blocked_deps == SelectSeq(dependency_info, IsBlockedDep)
         IN  [dependencies |-> dependency_info,
              has_dependencies |-> TRUE,
              total_dependencies |-> Len(dependency_info),
              completed_dependencies |-> Len(completed_deps),
              pending_dependencies |-> Len(pending_deps),
              blocked_dependencies |-> Len(blocked_deps),
              is_ready |-> Len(pending_deps) = 0]

\* a variant of the summary without the early return for an empty parent list
DependencySummaryAlwaysCounted(dependencies, dependency_info) ==
    LET completed_deps == SelectSeq(dependency_info, IsCompletedDep)
        pending_deps == SelectSeq(dependency_info, IsPendingDep)
        blocked_deps == SelectSeq(dependency_info, IsBlockedDep)
    IN  [dependencies |-> dependency_info,
         has_dependencies |-> dependencies # <<>>,
         total_dependencies |-> Len(dependency_info),
         completed_dependencies |-> Len(completed_deps),
         pending_dependencies |-> Len(pending_deps),
         blocked_dependencies |-> Len(blocked_deps),
         is_ready |-> Len(pending_deps) = 0 /\ Len(blocked_deps) = 0]

\* a variant of _build_dependency_context whose readiness looks at the blocked
\* parents only
DependencySummaryBlockedOnly(dependencies, dependency_info) ==
    IF dependencies = <<>>
    THEN [dependencies |-> <<>>, has_dependencies |-> FALSE]
    ELSE LET completed_deps == SelectSeq(dependency_info, IsCompletedDep)
             pending_deps == SelectSeq(dependency_info, IsPendingDep)
             blocked_deps == SelectSeq(dependency_info, IsBlockedDep)
         IN  [dependencies |-> dependency_info,
              has_dependencies |-> TRUE,
              total_dependencies |-> Len(dependency_info),
              completed_dependencies |-> Len(completed_deps),
              pending_dependencies |-> Len(pending_deps),
              blocked_dependencies |-> Len(blocked_deps),
              is_ready |-> Len(blocked_deps) = 0]

\* _build_dependency_context once every parent has been fetched
DependencySummary(dependencies, dependency_info) ==
    IF dependencies = <<>>
    THEN [dependencies |-> <<>>, has_dependencies |-> FALSE]
    ELSE LET completed_deps == SelectSeq(dependency_info, IsCompletedDep)
             pending_deps == SelectSeq(dependency_info, IsPendingDep)
             blocked_deps == SelectSeq(dependency_info, IsBlockedDep)
         IN  [dependencies |-> dependency_info,
              has_dependencies |-> TRUE,
              total_dependencies |-> Len(dependency_info),
              completed_dependencies |-> Len(completed_deps),
              pending_dependencies |-> Len(pending_deps),
              blocked_dependencies |-> Len(blocked_deps),
              is_ready |-> Len(pending_deps) = 0 /\ Len(blocked_deps) = 0]

\* one entry of the metrics list: float(metric_value) if metric_value else None
MetricEntry(row) ==
    [value |-> IF row.metric_value # 0 THEN Some(row.metric_value) ELSE Nothing,
     type |-> row.metric_type]

IsExecutionTime(m) == m.type = "execution_time"

RECURSIVE SumValues(_)
SumValues(ms) ==
    IF ms = <<>> THEN 0
    ELSE (IF IsSome(Head(ms).value) THEN Val(Head(ms).value) ELSE 0)
         + SumValues(Tail(ms))

RecentMetricsCount == 10

\* _get_performance_context on the rows its query returned
PerformanceContext(rows) ==
    IF rows = <<>>
    THEN [has_metrics |-> FALSE]
    ELSE LET metrics == [i \in 1..Len(rows) |-> MetricEntry(rows[i])]
             execution_times == SelectSeq(metrics, IsExecutionTime)
             avg_execution_time ==
                 IF execution_times # <<>>
                 THEN Some(Frac(SumValues(execution_times), Len(execution_times)))
                 ELSE Nothing
         IN  [has_metrics |-> TRUE,
              avg_execution_time |-> avg_execution_time,
              total_metrics |-> Len(metrics),
              recent_metrics |-> Take(metrics, RecentMetricsCount)]

TaskSummary(task) ==
    [id |-> task.id, status |-> task.status,
     complexity_score |-> task.complexity_score,
     affected_files |-> task.affected_files]

\* full_context.<list>[:cap] if include_history and the list is not empty
History(include_history, rows, cap) ==
    IF include_history /\ rows # <<>> THEN Some(Take(rows, cap)) ELSE Nothing

\* a variant of the bucket whose first test of the score is ">= 7"
OverallComplexityFromSeven(complexity_score, affected_files_count, dependency_count) ==
    LET score_factor ==
            IF IsSome(complexity_score) /\ Val(complexity_score) >= 7 THEN 2
            ELSE IF IsSome(complexity_score) /\ Val(complexity_score) > 5 THEN 1
            ELSE 0
        files_factor ==
            IF affected_files_count > 5 THEN 2
            ELSE IF affected_files_count > 2 THEN 1
            ELSE 0
        deps_factor == IF dependency_count > 3 THEN 1 ELSE 0
        complexity_factors == score_factor + files_factor + deps_factor
    IN  IF complexity_factors >= 4 THEN "very_high"
        ELSE IF complexity_factors >= 3 THEN "high"
        ELSE IF complexity_factors >= 2 THEN "medium"
        ELSE "low"

\* a variant of the bucket in which more than 5 files count less than 3 to 5
OverallComplexityFewFiles(complexity_score, affected_files_count, dependency_count) ==
    LET score_factor ==
            IF IsSome(complexity_score) /\ Val(complexity_score) > 7 THEN 2
            ELSE IF IsSome(complexity_score) /\ Val(complexity_score) > 5 THEN 1
            ELSE 0
        files_factor ==
            IF affected_files_count > 5 THEN 0
            ELSE IF affected_files_count > 2 THEN 1
            ELSE 0
        deps_factor == IF dependency_count > 3 THEN 1 ELSE 0
        complexity_factors == score_factor + files_factor + deps_factor
    IN  IF complexity_factors >= 4 THEN "very_high"
        ELSE IF complexity_factors >= 3 THEN "high"
        ELSE IF complexity_factors >= 2 THEN "medium"
        ELSE "low"

\* the overall_complexity of _analyze_complexity
OverallComplexity(complexity_score, affected_files_count, dependency_count) ==
    LET score_factor ==
            IF IsSome(complexity_score) /\ Val(complexity_score) # 0
                                         /\ Val(complexity_score) > 7 THEN 2
            ELSE IF IsSome(complexity_score) /\ Val(complexity_score) # 0
                                              /\ Val(complexity_score) > 5 THEN 1
            ELSE 0
        files_factor ==
            IF affected_files_count > 5 THEN 2
            ELSE IF affected_files_count > 2 THEN 1
            ELSE 0
        deps_factor == IF dependency_count > 3 THEN 1 ELSE 0
        complexity_factors == score_factor + files_factor + deps_factor
    IN  IF complexity_factors >= 4 THEN "very_high"
        ELSE IF complexity_factors >= 3 THEN "high"
        ELSE IF complexity_factors >= 2 THEN "medium"
        ELSE "low"

\* _analyze_complexity; len(None) raises TypeError
analyze_complexity(context) ==
    IF ~IsSome(context.task_summary.affected_files)
    THEN Raised("TypeError")
    ELSE LET complexity_score == context.task_summary.complexity_score
             affected_files_count == Val(context.task_summary.affected_files)
             dependency_count ==
                 Get(context.dependency_context, "total_dependencies", 0)
         IN  Returned(
              [has_dependencies |->
                   Get(context.dependency_context, "has_dependencies", FALSE),
               complexity_score |-> complexity_score,
               affected_files_count |-> affected_files_count,
               dependency_count |-> dependency_count,
               requirements_complexity |->
                   IF IsSome(context.requirements_context) THEN "high" ELSE "low",
               overall_complexity |->
                   OverallComplexity(complexity_score, affected_files_count,
                                     dependency_count)])

IsFailure(interaction) == ~interaction.success
\* "if exec_time:" is false for None and for 0
ReportsTime(interaction) ==
    IsSome(interaction.execution_time_ms) /\ Val(interaction.execution_time_ms) # 0

RECURSIVE SumTimes(_)
SumTimes(interactions) ==
    IF interactions = <<>> THEN 0
    ELSE Val(Head(interactions).execution_time_ms) + SumTimes(Tail(interactions))

\* _analyze_interactions
analyze_interactions(interactions) ==
    IF ~IsSome(interactions) \/ Val(interactions) = <<>>
    THEN [has_interactions |-> FALSE]
    ELSE LET list == Val(interactions)
             error_count == Len(SelectSeq(list, IsFailure))
             timed == SelectSeq(list, ReportsTime)
             execution_count == Len(timed)
             error_rate == Frac(error_count, Len(list))
         IN  [has_interactions |-> TRUE,
              error_count |-> error_count,
              error_rate |-> error_rate,
              total_interactions |-> Len(list),
              avg_execution_time_ms |->
                  IF execution_count > 0
                  THEN Some(Frac(SumTimes(timed), execution_count))
                  ELSE Nothing,
              success_rate |-> RSub(R(1), error_rate)]

IsPassed(v) == v.status = "passed"
PassRate(list) == Frac(Len(SelectSeq(list, IsPassed)), Len(list))

\* a variant of the trend that takes any difference of the rates for a change
calculate_validation_trend_no_margin(validations) ==
    IF Len(validations) < 3 THEN "insufficient_data"
    ELSE LET recent == Take(validations, Len(validations) \div 2)
             older == Drop(validations, Len(validations) \div 2)
             recent_pass_rate == PassRate(recent)
             older_pass_rate == PassRate(older)
         IN  IF RGt(recent_pass_rate, older_pass_rate) THEN "improving"
             ELSE IF RLt(recent_pass_rate, older_pass_rate) THEN "declining"
             ELSE "stable"

\* a variant of the trend that gives the middle record of an odd-length list
\* to the recent half
calculate_validation_trend_upper_mid(validations) ==
    IF Len(validations) < 3 THEN "insufficient_data"
    ELSE LET recent == Take(validations, (Len(validations) + 1) \div 2)
             older == Drop(validations, (Len(validations) + 1) \div 2)
             recent_pass_rate == PassRate(recent)
             older_pass_rate == PassRate(older)
         IN  IF RGt(recent_pass_rate, RAdd(older_pass_rate, Frac(1, 10)))
             THEN "improving"
             ELSE IF RLt(recent_pass_rate, RSub(older_pass_rate, Frac(1, 10)))
             THEN "declining"
             ELSE "stable"

\* _calculate_validation_trend
calculate_validation_trend(validations) ==
    IF Len(validations) < 3 THEN "insufficient_data"
    ELSE LET recent == Take(validations, Len(validations) \div 2)
             older == Drop(validations, Len(validations) \div 2)
             recent_pass_rate == PassRate(recent)
             older_pass_rate == PassRate(older)
         IN  IF RGt(recent_pass_rate, RAdd(older_pass_rate, Frac(1, 10)))
             THEN "improving"
             ELSE IF RLt(recent_pass_rate, RSub(older_pass_rate, Frac(1, 10)))
             THEN "declining"
             ELSE "stable"

\* _analyze_validations
analyze_validations(validations) ==
    IF ~IsSome(validations) \/ Val(validations) = <<>>
    THEN [has_validations |-> FALSE]
    ELSE LET list == Val(validations)
         IN  [has_validations |-> TRUE,
              total_validations |-> Len(list),
              pass_rate |-> PassRate(list),
              recent_trend |-> calculate_validation_trend(list)]

\* a variant of the performance trend that takes any difference of the averages
\* for a change
calculate_performance_trend_no_margin(execution_times) ==
    IF Len(execution_times) < 3 THEN "insufficient_data"
    ELSE LET half == Len(execution_times) \div 2
             recent_avg == Frac(SumSeq(Take(execution_times, half)), half)
             older_avg == Frac(SumSeq(Drop(execution_times, half)),
                               Len(execution_times) - half)
         IN  IF RLt(recent_avg, older_avg) THEN "improving"
             ELSE IF RGt(recent_avg, older_avg) THEN "declining"
             ELSE "stable"

\* _calculate_performance_trend; execution_times are positive numbers
calculate_performance_trend(execution_times) ==
    IF Len(execution_times) < 3 THEN "insufficient_data"
    ELSE LET half == Len(execution_times) \div 2
             recent_avg == Frac(SumSeq(Take(execution_times, half)), half)
             older_avg == Frac(SumSeq(Drop(execution_times, half)),
                               Len(execution_times) - half)
         IN  IF RLt(recent_avg, RMul(older_avg, Frac(9, 10))) THEN "improving"
             ELSE IF RGt(recent_avg, RMul(older_avg, Frac(11, 10))) THEN "declining"
             ELSE "stable"

HasTimeValue(m) == m.type = "execution_time" /\ IsSome(m.value)

\* _analyze_performance
analyze_performance(performance_context) ==
    IF ~Get(performance_context, "has_metrics", FALSE)
    THEN [has_performance_data |-> FALSE]
    ELSE LET metrics == performance_context.recent_metrics
             timed == SelectSeq(metrics, HasTimeValue)
             execution_times == [i \in 1..Len(timed) |-> Val(timed[i].value)]
         IN  [avg_execution_time |-> performance_context.avg_execution_time,
              total_metrics |-> Len(metrics),
              has_performance_data |-> TRUE,
              execution_time_trend |->
                  calculate_performance_trend(execution_times)]

\* a variant of the recommendations that puts the declining validation trend
\* before the low pass rate
generate_recommendations_trend_first(complexity, interactions, validations, performance) ==
    IF "avg_execution_time_ms" \in DOMAIN interactions
       /\ ~IsSome(interactions.avg_execution_time_ms)
    THEN Raised("TypeError")
    ELSE Returned(
        (IF complexity.overall_complexity = "very_high"
         THEN <<"Consider breaking this task into smaller subtasks due to very high complexity">>
         ELSE IF complexity.overall_complexity = "high"
         THEN <<"Task has high complexity - ensure thorough testing and validation">>
         ELSE <<>>)
        \o (IF complexity.dependency_count > 3
            THEN <<"High number of dependencies - verify all prerequisites are completed">>
            ELSE <<>>)
        \o (IF RGt(Get(interactions, "error_rate", R(0)), Frac(3, 10))
            THEN <<"High error rate in AI interactions - review prompts and context quality">>
            ELSE <<>>)
        \o (IF RGt(Val(Get(interactions, "avg_execution_time_ms", Some(R(0)))), R(5000))
            THEN <<"Long AI interaction times - consider optimizing prompts or context size">>
            ELSE <<>>)
        \o (IF Get(validations, "recent_trend", "None") = "declining"
            THEN <<"Validation quality is declining - investigate recent changes">>
            ELSE <<>>)
        \o (IF RLt(Get(validations, "pass_rate", R(1)), Frac(7, 10))
            THEN <<"Low validation pass rate - review code quality and testing strategy">>
            ELSE <<>>)
        \o (IF Get(performance, "execution_time_trend", "None") = "declining"
            THEN <<"Performance is declining - consider optimization opportunities">>
            ELSE <<>>)
        \o (IF ~Get(interactions, "has_interactions", FALSE)
            THEN <<"No AI interactions recorded - ensure proper logging is enabled">>
            ELSE <<>>)
        \o (IF ~Get(validations, "has_validations", FALSE)
            THEN <<"No validation results - implement automated validation checks">>
            ELSE <<>>))

\* _generate_recommendations; "None > 5000" raises TypeError
generate_recommendations(complexity, interactions, validations, performance) ==
    IF "avg_execution_time_ms" \in DOMAIN interactions
       /\ ~IsSome(interactions.avg_execution_time_ms)
    THEN Raised("TypeError")
    ELSE Returned(
        (IF complexity.overall_complexity = "very_high"
         THEN <<"Consider breaking this task into smaller subtasks due to very high complexity">>
         ELSE IF complexity.overall_complexity = "high"
         THEN <<"Task has high complexity - ensure thorough testing and validation">>
         ELSE <<>>)
        \o (IF complexity.dependency_count > 3
            THEN <<"High number of dependencies - verify all prerequisites are completed">>
            ELSE <<>>)
        \o (IF RGt(Get(interactions, "error_rate", R(0)), Frac(3, 10))
            THEN <<"High error rate in AI interactions - review prompts and context quality">>
            ELSE <<>>)
        \o (IF RGt(Val(Get(interactions, "avg_execution_time_ms", Some(R(0)))), R(5000))
            THEN <<"Long AI interaction times - consider optimizing prompts or context size">>
            ELSE <<>>)
        \o (IF RLt(Get(validations, "pass_rate", R(1)), Frac(7, 10))
            THEN <<"Low validation pass rate - review code quality and testing strategy">>
            ELSE <<>>)
        \o (IF Get(validations, "recent_trend", "None") = "declining"
            THEN <<"Validation quality is declining - investigate recent changes">>
            ELSE <<>>)
        \o (IF Get(performance, "execution_time_trend", "None") = "declining"
            THEN <<"Performance is declining - consider optimization opportunities">>
            ELSE <<>>)
        \o (IF ~Get(interactions, "has_interactions", FALSE)
            THEN <<"No AI interactions recorded - ensure proper logging is enabled">>
            ELSE <<>>)
        \o (IF ~Get(validations, "has_validations", FALSE)
            THEN <<"No validation results - implement automated validation checks">>
            ELSE <<>>))

\* the body of analyze_context_patterns after generate_prompt_context returned
ContextAnalytics(prompt_context) ==
    LET complexity == analyze_complexity(prompt_context)
        interaction_patterns == analyze_interactions(prompt_context.recent_interactions)
        validation_trends == analyze_validations(prompt_context.validation_history)
        performance_analysis == analyze_performance(prompt_context.performance_context)
    IN  IF complexity.raised THEN complexity
        ELSE LET recommendations ==
                     generate_recommendations(complexity.value, interaction_patterns,
                                              validation_trends, performance_analysis)
             IN  IF recommendations.raised THEN recommendations
                 ELSE Returned(
                      [performance_metrics |-> performance_analysis,
                       interaction_patterns |-> interaction_patterns,
                       validation_trends |-> validation_trends,
                       recommendations |-> recommendations.value,
                       task_id |-> prompt_context.task_id,
                       complexity_indicators |-> complexity.value])

\* a variant of the interaction score whose time_score is not kept above 0
InteractionHealthUnclamped(interaction_patterns) ==
    IF Get(interaction_patterns, "has_interactions", FALSE)
    THEN LET success_rate == Get(interaction_patterns, "success_rate", R(0))
             avg_time == Get(interaction_patterns, "avg_execution_time_ms", Some(R(0)))
             time_score ==
                 IF IsSome(avg_time) /\ Val(avg_time) # R(0)
                 THEN RSub(R(100), RDiv(Val(avg_time), R(100)))
                 ELSE R(100)
         IN  RAdd(RMul(success_rate, R(70)), RMul(time_score, Frac(3, 10)))
    ELSE R(50)

\* the component scores of get_context_health_score
InteractionHealth(interaction_patterns) ==
    IF Get(interaction_patterns, "has_interactions", FALSE)
    THEN LET success_rate == Get(interaction_patterns, "success_rate", R(0))
             avg_time == Get(interaction_patterns, "avg_execution_time_ms", Some(R(0)))
             time_score ==
                 IF IsSome(avg_time) /\ Val(avg_time) # R(0)
                 THEN RMax(R(0), RSub(R(100), RDiv(Val(avg_time), R(100))))
                 ELSE R(100)
         IN  RAdd(RMul(success_rate, R(70)), RMul(time_score, Frac(3, 10)))
    ELSE R(50)

TrendBonus(trend) ==
    CASE trend = "improving" -> 10
      [] trend = "stable" -> 0
      [] trend = "declining" -> -20
      [] OTHER -> 0

ValidationHealth(validation_trends) ==
    IF Get(validation_trends, "has_validations", FALSE)
    THEN LET pass_rate == Get(validation_trends, "pass_rate", R(0))
             trend == Get(validation_trends, "recent_trend", "stable")
         IN  RMin(R(100), RMax(R(0), RAdd(RMul(pass_rate, R(100)),
                                           R(TrendBonus(trend)))))
    ELSE R(50)

\* a variant of the performance score that gives an improving trend full marks
PerformanceHealthFullMarks(performance_analysis) ==
    IF Get(performance_analysis, "has_performance_data", FALSE)
    THEN LET trend == Get(performance_analysis, "execution_time_trend", "stable")
         IN  CASE trend = "improving" -> R(100)
               [] trend = "stable" -> R(70)
               [] trend = "declining" -> R(40)
               [] OTHER -> R(50)
    ELSE R(50)

PerformanceHealth(performance_analysis) ==
    IF Get(performance_analysis, "has_performance_data", FALSE)
    THEN LET trend == Get(performance_analysis, "execution_time_trend", "stable")
         IN  CASE trend = "improving" -> R(90)
               [] trend = "stable" -> R(70)
               [] trend = "declining" -> R(40)
               [] OTHER -> R(50)
    ELSE R(50)

ComplexityHealth(complexity_indicators) ==
    LET complexity == Get(complexity_indicators, "overall_complexity", "medium")
    IN  CASE complexity = "low" -> R(90)
          [] complexity = "medium" -> R(70)
          [] complexity = "high" -> R(50)
          [] complexity = "very_high" -> R(30)
          [] OTHER -> R(50)

ComponentScores(analytics) ==
    [interaction_health |-> InteractionHealth(analytics.interaction_patterns),
     validation_health |-> ValidationHealth(analytics.validation_trends),
     performance_health |-> PerformanceHealth(analytics.performance_metrics),
     complexity_health |-> ComplexityHealth(analytics.complexity_indicators)]

\* a variant of the weighted sum with the four weights equal
OverallScoreEqualWeights(scores) ==
    RDiv(RAdd(RAdd(scores.interaction_health, scores.validation_health),
              RAdd(scores.performance_health, scores.complexity_health)),
         R(4))

\* sum(scores[key] * weights[key] for key in scores)
OverallScore(scores) ==
    RAdd(RAdd(RMul(scores.interaction_health, Frac(3, 10)),
              RMul(scores.validation_health, Frac(3, 10))),
         RAdd(RMul(scores.performance_health, Frac(2, 10)),
              RMul(scores.complexity_health, Frac(2, 10))))

HealthStatus(overall_score) ==
    IF RGe(overall_score, R(80)) THEN "excellent"
    ELSE IF RGe(overall_score, R(60)) THEN "good"
    ELSE IF RGe(overall_score, R(40)) THEN "fair"
    ELSE "poor"

\* round(x, 1) for x >= 0: the nearest multiple of 0.1.  A value halfway
\* between two multiples goes to whichever side the float that stands for it
\* lies on, so both neighbours are possible.
Round1(x) ==
    LET tenths == (x[1] * 10) \div x[2]
        rest == (x[1] * 10) % x[2]
    IN  IF 2 * rest < x[2] THEN {Frac(tenths, 10)}
        ELSE IF 2 * rest > x[2] THEN {Frac(tenths + 1, 10)}
        ELSE {Frac(tenths, 10), Frac(tenths + 1, 10)}

\* the report get_context_health_score returns when nothing was raised
HealthReports(analytics) ==
    LET scores == ComponentScores(analytics)
        overall_score == OverallScore(scores)
    IN  {[recommendations |-> analytics.recommendations,
          overall_score |-> rounded,
          health_status |-> HealthStatus(overall_score),
          component_scores |-> scores,
          last_updated |-> "now"] : rounded \in Round1(overall_score)}

\* a variant of the except branch that fills in every key of a scored report
ErrorReportWithScores(error) ==
    [error |-> error, recommendations |-> <<>>, overall_score |-> R(0),
     health_status |-> "error", component_scores |-> <<>>,
     last_updated |-> "now"]

\* the report of its except branch
ErrorReport(error) ==
    [error |-> error, overall_score |-> R(0), health_status |-> "error",
     last_updated |-> "now"]

\* the text _format_structured_context renders, section by section
format_structured_context(context) ==
    [dependencies |->
         IF Get(context.dependency_context, "has_dependencies", FALSE)
         THEN Some([pending |-> context.dependency_context.pending_dependencies,
                    completed |-> context.dependency_context.completed_dependencies,
                    total |-> context.dependency_context.total_dependencies,
                    ready |-> context.dependency_context.is_ready])
         ELSE Nothing,
     task_summary |-> context.task_summary,
     interactions |->
         IF IsSome(context.recent_interactions)
         THEN Take(Val(context.recent_interactions), 3) ELSE <<>>,
     validations |->
         IF IsSome(context.validation_history)
         THEN Take(Val(context.validation_history), 3) ELSE <<>>,
     format |-> "structured",
     codebase |-> IsSome(context.codebase_context)]

\* the sentences _format_narrative_context joins
format_narrative_context(context) ==
    [dependencies |->
         IF Get(context.dependency_context, "has_dependencies", FALSE)
         THEN Some(IF context.dependency_context.is_ready THEN "ready"
                   ELSE "pending")
         ELSE Nothing,
     task |-> [id |-> context.task_summary.id, status |-> context.task_summary.status],
     interactions |->
         IF IsSome(context.recent_interactions)
         THEN Some([count |-> Len(Val(context.recent_interactions)),
                    errors |-> Len(SelectSeq(Val(context.recent_interactions),
                                             IsFailure))])
         ELSE Nothing,
     validations |->
         IF IsSome(context.validation_history)
         THEN Some([passed |-> Len(SelectSeq(Take(Val(context.validation_history), 3),
                                             IsPassed)),
                    of |-> Len(Take(Val(context.validation_history), 3))])
         ELSE Nothing,
     format |-> "narrative"]

\* a variant of the export that renders the structured text for a token it
\* does not know
ExportContextLenient(context, format_type) ==
    IF format_type = "narrative" THEN Returned(format_narrative_context(context))
    ELSE IF format_type = "json" THEN Returned([context |-> context, format |-> "json"])
    ELSE Returned(format_structured_context(context))

\* export_context_for_prompt after generate_prompt_context returned
ExportContext(context, format_type) ==
    IF format_type = "structured" THEN Returned(format_structured_context(context))
    ELSE IF format_type = "narrative" THEN Returned(format_narrative_context(context))
    ELSE IF format_type = "json" THEN Returned([context |-> context, format |-> "json"])
    ELSE Raised("ValueError: Unsupported format type")

---------------------------------------------------------------------------
(* The storage queries *)

AiInteractionsLimit == 50
ValidationResultsLimit == 20
PerformanceMetricsLimit == 20

\* TaskStorage.get_task
get_task(task_id) ==
    IF task_id \in DOMAIN tasks THEN Some(tasks[task_id]) ELSE Nothing

\* TaskStorage.get_task_dependencies
get_task_dependencies(task_id) ==
    LET IsParentRow(row) == row.child_task_id = task_id
        rows == SelectSeq(task_dependencies, IsParentRow)
    IN  [i \in 1..Len(rows) |-> rows[i].parent_task_id]

\* a variant of the interaction query that keeps the order of insertion
AiRowsOldestFirst(task_id) == Take(ai_interactions[task_id], AiInteractionsLimit)

\* ContextStorage.get_task_context: the three queries, newest row first
ContextRows(task_id) == Reverse(task_context[task_id])
AiRows(task_id) == Take(Reverse(ai_interactions[task_id]), AiInteractionsLimit)
ValidationRows(task_id) ==
    Take(Reverse(validation_results[task_id]), ValidationResultsLimit)
\* a variant of the metrics query that keeps the order of insertion
MetricRowsOldestFirst(task_id) ==
    Take(performance_metrics[task_id], PerformanceMetricsLimit)

\* ContextEngine._get_performance_context: its query
MetricRows(task_id) ==
    Take(Reverse(performance_metrics[task_id]), PerformanceMetricsLimit)

\* get_task_context's loop over context_rows: each row of a type overwrites
\* the field that an earlier row of the type has set
ContextField(context_rows, context_type) ==
    LET IsOfType(row) == row.context_type = context_type
        rows == SelectSeq(context_rows, IsOfType)
    IN  IF rows = <<>> THEN Nothing ELSE Some(rows[Len(rows)].context_data)

---------------------------------------------------------------------------
(* Requests *)

DefaultMaxInteractions == 10
DefaultMaxValidations == 5

NoRequest == [op |-> "none"]
NoLocals ==
    [dependencies |-> <<>>, dependency_info |-> <<>>, task |-> Nothing,
     context_rows |-> <<>>, ai_rows |-> <<>>, validation_rows |-> <<>>,
     fetched |-> 0]
NoResult == [raised |-> FALSE, value |-> "none"]

\* the PromptContext generate_prompt_context builds from what it fetched
PromptContextOf(request, locals, metric_rows) ==
    [task_summary |-> TaskSummary(Val(locals.task)),
     dependency_context |->
         DependencySummary(locals.dependencies, locals.dependency_info),
     requirements_context |-> ContextField(locals.context_rows, "requirements"),
     performance_context |-> PerformanceContext(metric_rows),
     recent_interactions |->
         History(request.include_history, locals.ai_rows, request.max_interactions),
     validation_history |->
         History(request.include_history, locals.validation_rows,
                 request.max_validations),
     task_id |-> request.task_id,
     codebase_context |-> ContextField(locals.context_rows, "codebase"),
     workflow_state |-> ContextField(locals.context_rows, "workflow")]

\* a variant of the operations in which get_context_health_score has no except
\* branch
OutcomesPropagating(request, generated) ==
    IF request.op = "generate_prompt_context" THEN {generated}
    ELSE IF request.op = "analyze_context_patterns"
    THEN {IF generated.raised THEN generated ELSE ContextAnalytics(generated.value)}
    ELSE IF request.op = "export_context_for_prompt"
    THEN {IF generated.raised THEN generated
          ELSE ExportContext(generated.value, request.format_type)}
    ELSE LET analytics ==
                 IF generated.raised THEN generated
                 ELSE ContextAnalytics(generated.value)
         IN  IF analytics.raised THEN {analytics}
             ELSE {Returned(report) : report \in HealthReports(analytics.value)}

\* what the operation makes of the outcome of its generate_prompt_context
Outcomes(request, generated) ==
    IF request.op = "generate_prompt_context" THEN {generated}
    ELSE IF request.op = "analyze_context_patterns"
    THEN {IF generated.raised THEN generated ELSE ContextAnalytics(generated.value)}
    ELSE IF request.op = "export_context_for_prompt"
    THEN {IF generated.raised THEN generated
          ELSE ExportContext(generated.value, request.format_type)}
    ELSE LET analytics ==
                 IF generated.raised THEN generated
                 ELSE ContextAnalytics(generated.value)
         IN  IF analytics.raised THEN {Returned(ErrorReport(analytics.error))}
             ELSE {Returned(report) : report \in HealthReports(analytics.value)}

---------------------------------------------------------------------------
(* Bounds and input sets *)

MaxWrites == 2          \* store writes by other clients in one behaviour
MaxFaults == 1          \* storage fetches that fail in one behaviour
MaxRows == 2            \* rows per task that writers add to task_context
MaxStoredInteractions == 52   \* rows per task that writers add to ai_interactions
MaxStoredValidations == 22    \* rows per task that writers add to validation_results

TaskIds == {"t1", "t2", "t3"}

\* the format tokens a caller passes to export_context_for_prompt: the three
\* the code names and two it does not
FormatTokens == {"structured", "narrative", "json", "raw", "xml"}
TaskStatus == {"pending", "in-progress", "done", "deferred", "blocked", "cancelled"}

Task(id, status, complexity_score, affected_files) ==
    [id |-> id, status |-> status, complexity_score |-> complexity_score,
     affected_files |-> affected_files]

NoRows == [t \in TaskIds |-> <<>>]

Request(op, task_id, include_history, max_interactions, max_validations, format_type) ==
    [include_history |-> include_history, task_id |-> task_id,
     format_type |-> format_type, op |-> op,
     max_interactions |-> max_interactions,
     max_validations |-> max_validations]

\* analyze_context_patterns, get_context_health_score and
\* export_context_for_prompt call generate_prompt_context(task_id)
DefaultRequest(op, task_id, format_type) ==
    Request(op, task_id, TRUE, DefaultMaxInteractions, DefaultMaxValidations,
            format_type)

---------------------------------------------------------------------------
(* One request of the engine, a step per awaited fetch *)

Start(request) ==
    /\ pc = "idle"
    /\ pc' = "get_task"
    /\ req' = request
    /\ loc' = NoLocals
    /\ result' = NoResult
    /\ UNCHANGED <<storeVars, faults, writes>>

\* the request ends: the operation returns or raises
Finish(generated) ==
    /\ pc' = "done"
    /\ result' \in Outcomes(req, generated)

\* a variant of the failing fetch in which the engine swallows the error and
\* issues the fetch again
FailRetrying ==
    /\ faults > 0
    /\ faults' = faults - 1
    /\ UNCHANGED <<storeVars, writes, pc, req, loc, result>>

\* a fetch fails: the error propagates out of generate_prompt_context
Fail ==
    /\ faults > 0
    /\ faults' = faults - 1
    /\ Finish(Raised("StorageFailure"))
    /\ UNCHANGED <<storeVars, writes, req, loc>>

Continue(next, locals) ==
    /\ pc' = next
    /\ loc' = locals
    /\ UNCHANGED <<storeVars, faults, writes, req, result>>

\* a variant of the first step that goes on with a blank task when none is
\* stored
FetchTaskUnchecked ==
    /\ pc = "get_task"
    /\ \E fails \in BOOLEAN :
        IF fails THEN Fail
        ELSE Continue("context_rows",
                      [loc EXCEPT !.task =
                          IF IsSome(get_task(req.task_id)) THEN get_task(req.task_id)
                          ELSE Some([id |-> req.task_id, status |-> "pending",
                                     complexity_score |-> Nothing,
                                     affected_files |-> Some(0)])])

\* a variant of the first step in which an export looks at its format token
\* before it fetches anything
FetchTaskFormatFirst ==
    /\ pc = "get_task"
    /\ IF /\ req.op = "export_context_for_prompt"
          /\ req.format_type \notin {"structured", "narrative", "json"}
       THEN /\ Finish(Raised("ValueError: Unsupported format type"))
            /\ UNCHANGED <<storeVars, faults, writes, req, loc>>
       ELSE \E fails \in BOOLEAN :
               IF fails THEN Fail
               ELSE IF IsSome(get_task(req.task_id))
               THEN Continue("context_rows",
                             [loc EXCEPT !.task = get_task(req.task_id)])
               ELSE /\ Finish(Raised("ValueError: Task not found"))
                    /\ UNCHANGED <<storeVars, faults, writes, req, loc>>

\* task = await task_storage.get_task(task_id)
FetchTask ==
    /\ pc = "get_task"
    /\ \E fails \in BOOLEAN :
        IF fails THEN Fail
        ELSE IF IsSome(get_task(req.task_id))
        THEN Continue("context_rows", [loc EXCEPT !.task = get_task(req.task_id)])
        ELSE /\ Finish(Raised("ValueError: Task not found"))
             /\ UNCHANGED <<storeVars, faults, writes, req, loc>>

\* get_task_context: context_rows = await conn.fetch(context_query, task_id)
FetchContextRows ==
    /\ pc = "context_rows"
    /\ \E fails \in BOOLEAN :
        IF fails THEN Fail
        ELSE Continue("ai_rows",
                      [loc EXCEPT !.context_rows = ContextRows(req.task_id)])

\* get_task_context: ai_rows = await conn.fetch(ai_query, task_id)
FetchAiRows ==
    /\ pc = "ai_rows"
    /\ \E fails \in BOOLEAN :
        IF fails THEN Fail
        ELSE Continue("validation_rows",
                      [loc EXCEPT !.ai_rows = AiRows(req.task_id)])

\* get_task_context: validation_rows = await conn.fetch(validation_query, task_id)
FetchValidationRows ==
    /\ pc = "validation_rows"
    /\ \E fails \in BOOLEAN :
        IF fails THEN Fail
        ELSE Continue("get_dependencies",
                      [loc EXCEPT !.validation_rows = ValidationRows(req.task_id)])

\* a variant of the fetch of the parent list that also follows the parents of
\* each parent
FetchDependenciesTwoHops ==
    /\ pc = "get_dependencies"
    /\ \E fails \in BOOLEAN :
        IF fails THEN Fail
        ELSE LET direct == get_task_dependencies(req.task_id)
                 Further[i \in 0..Len(direct)] ==
                     IF i = 0 THEN <<>>
                     ELSE Further[i - 1] \o get_task_dependencies(direct[i])
                 dependencies == direct \o Further[Len(direct)]
             IN  Continue(IF dependencies = <<>> THEN "get_metrics" ELSE "get_parent",
                          [loc EXCEPT !.dependencies = dependencies])

\* dependencies = await task_storage.get_task_dependencies(task_id)
FetchDependencies ==
    /\ pc = "get_dependencies"
    /\ \E fails \in BOOLEAN :
        IF fails THEN Fail
        ELSE LET dependencies == get_task_dependencies(req.task_id)
             IN  Continue(IF dependencies = <<>> THEN "get_metrics" ELSE "get_parent",
                          [loc EXCEPT !.dependencies = dependencies])

\* a variant of the fetch of a parent that reads again, in the same step,
\* every parent fetched before it
FetchParentRefreshing ==
    /\ pc = "get_parent"
    /\ \E fails \in BOOLEAN :
        IF fails THEN Fail
        ELSE LET upto == SubSeq(loc.dependencies, 1, loc.fetched + 1)
                 IsStored(dep_id) == IsSome(get_task(dep_id))
                 stored == SelectSeq(upto, IsStored)
             IN  Continue(IF loc.fetched + 1 = Len(loc.dependencies)
                          THEN "get_metrics" ELSE "get_parent",
                          [loc EXCEPT
                             !.fetched = @ + 1,
                             !.dependency_info =
                                 [i \in 1..Len(stored) |->
                                     DependencyInfo(Val(get_task(stored[i])))]])

\* a variant of the fetch of a parent that fails when the parent is not stored
FetchParentStrict ==
    /\ pc = "get_parent"
    /\ LET dep_task == get_task(loc.dependencies[loc.fetched + 1])
       IN  IF IsSome(dep_task)
           THEN Continue(IF loc.fetched + 1 = Len(loc.dependencies)
                         THEN "get_metrics" ELSE "get_parent",
                         [loc EXCEPT
                            !.fetched = @ + 1,
                            !.dependency_info = Append(@, DependencyInfo(Val(dep_task)))])
           ELSE /\ Finish(Raised("ValueError: Task not found"))
                /\ UNCHANGED <<storeVars, faults, writes, req, loc>>

\* _build_dependency_context: dep_task = await task_storage.get_task(dep_id)
FetchParent ==
    /\ pc = "get_parent"
    /\ \E fails \in BOOLEAN :
        IF fails THEN Fail
        ELSE LET dep_task == get_task(loc.dependencies[loc.fetched + 1])
             IN  Continue(IF loc.fetched + 1 = Len(loc.dependencies)
                          THEN "get_metrics" ELSE "get_parent",
                          [loc EXCEPT
                             !.fetched = @ + 1,
                             !.dependency_info =
                                 IF IsSome(dep_task)
                                 THEN Append(@, DependencyInfo(Val(dep_task)))
                                 ELSE @])

\* a variant of the last step that records a sample of its own in
\* performance_metrics
FetchMetricsRecording ==
    /\ pc = "get_metrics"
    /\ Len(performance_metrics[req.task_id]) < PerformanceMetricsLimit
    /\ Finish(Returned(PromptContextOf(req, loc, MetricRows(req.task_id))))
    /\ performance_metrics' =
           [performance_metrics EXCEPT ![req.task_id] =
               Append(@, [n |-> Len(@) + 1, metric_value |-> 1,
                          metric_type |-> "execution_time"])]
    /\ UNCHANGED <<tasks, task_dependencies, task_context, ai_interactions,
                   validation_results, faults, writes, req, loc>>

\* _get_performance_context: rows = await conn.fetch(query, task_id); nothing
\* is awaited after it, so the rest of the operation runs in the same step
FetchMetrics ==
    /\ pc = "get_metrics"
    /\ \E fails \in BOOLEAN :
        IF fails THEN Fail
        ELSE /\ Finish(Returned(PromptContextOf(req, loc, MetricRows(req.task_id))))
             /\ UNCHANGED <<storeVars, faults, writes, req, loc>>

\* the caller is done with what the request returned
Discard ==
    /\ pc = "done"
    /\ pc' = "idle"
    /\ req' = NoRequest
    /\ loc' = NoLocals
    /\ result' = NoResult
    /\ UNCHANGED <<storeVars, faults, writes>>

Steps ==
    \/ FetchTask
    \/ FetchContextRows
    \/ FetchAiRows
    \/ FetchValidationRows
    \/ FetchDependencies
    \/ FetchParent
    \/ FetchMetrics

---------------------------------------------------------------------------
(* Writes of other clients: TaskStorage and ContextStorage *)

Written ==
    /\ writes > 0
    /\ writes' = writes - 1
    /\ UNCHANGED <<faults, pc, req, loc, result>>

\* TaskStorage.store_task: INSERT INTO tasks; ids are unique
store_task(task) ==
    /\ task.id \notin DOMAIN tasks
    /\ tasks' = [t \in DOMAIN tasks \cup {task.id} |->
                    IF t = task.id THEN task ELSE tasks[t]]
    /\ UNCHANGED <<task_dependencies, task_context, ai_interactions,
                   validation_results, performance_metrics>>

\* TaskStorage.store_task_context: INSERT INTO task_context
ContextInserted(task_id, context_type, context_data) ==
    [task_context EXCEPT ![task_id] =
        Append(@, [context_type |-> context_type, context_data |-> context_data])]

store_task_context(task_id, context_type, context_data) ==
    /\ Len(task_context[task_id]) < MaxRows
    /\ task_context' = ContextInserted(task_id, context_type, context_data)
    /\ UNCHANGED <<tasks, task_dependencies, ai_interactions, validation_results,
                   performance_metrics>>

\* TaskStorage.update_task_status: UPDATE tasks SET status, then the context
\* row when a context is given
update_task_status(task_id, status, context) ==
    /\ tasks' = [t \in DOMAIN tasks |->
                    IF t = task_id THEN [tasks[t] EXCEPT !.status = status]
                    ELSE tasks[t]]
    /\ IF IsSome(context)
       THEN /\ Len(task_context[task_id]) < MaxRows
            /\ task_context' = ContextInserted(task_id, "status_update", Val(context))
       ELSE UNCHANGED task_context
    /\ UNCHANGED <<task_dependencies, ai_interactions, validation_results,
                   performance_metrics>>

\* TaskStorage.add_task_dependency: INSERT ... ON CONFLICT DO NOTHING
add_task_dependency(parent_task_id, child_task_id, dependency_type) ==
    LET row == [child_task_id |-> child_task_id,
                parent_task_id |-> parent_task_id,
                dependency_type |-> dependency_type]
    IN  /\ task_dependencies' =
               IF \E i \in 1..Len(task_dependencies) : task_dependencies[i] = row
               THEN task_dependencies
               ELSE Append(task_dependencies, row)
        /\ UNCHANGED <<tasks, task_context, ai_interactions, validation_results,
                       performance_metrics>>

\* ContextStorage.store_ai_interaction: INSERT INTO ai_interactions
store_ai_interaction(task_id, success, execution_time_ms) ==
    /\ Len(ai_interactions[task_id]) < MaxStoredInteractions
    /\ ai_interactions' =
           [ai_interactions EXCEPT ![task_id] =
               Append(@, [n |-> Len(@) + 1, success |-> success,
                          execution_time_ms |-> execution_time_ms])]
    /\ UNCHANGED <<tasks, task_dependencies, task_context, validation_results,
                   performance_metrics>>

\* ContextStorage.store_validation_result: INSERT INTO validation_results
store_validation_result(task_id, status) ==
    /\ Len(validation_results[task_id]) < MaxStoredValidations
    /\ validation_results' =
           [validation_results EXCEPT ![task_id] =
               Append(@, [n |-> Len(@) + 1, status |-> status])]
    /\ UNCHANGED <<tasks, task_dependencies, task_context, ai_interactions,
                   performance_metrics>>

---------------------------------------------------------------------------
(* Spec: the engine beside the clients of TaskStorage, with failing fetches *)

Idle ==
    /\ pc = "idle"
    /\ req = NoRequest
    /\ loc = NoLocals
    /\ result = NoResult

Edge(parent_task_id, child_task_id, dependency_type) ==
    [child_task_id |-> child_task_id, parent_task_id |-> parent_task_id,
     dependency_type |-> dependency_type]

\* t1 waits for t2 and for t3, which is not stored yet
Init ==
    /\ \E st \in {"pending", "done"} :
          tasks = [t \in {"t1", "t2"} |->
                      IF t = "t1" THEN Task("t1", "pending", Some(8), Some(6))
                      ELSE Task("t2", st, Some(3), Some(1))]
    /\ task_dependencies = <<Edge("t2", "t1", "blocks"), Edge("t3", "t1", "blocks")>>
    /\ task_context = NoRows
    /\ ai_interactions \in
          {NoRows} \cup
          {[NoRows EXCEPT ![t] = <<[n |-> 1, success |-> TRUE,
                                    execution_time_ms |-> ms]>>] :
              t \in {"t1", "t3"}, ms \in {Nothing, Some(1000)}}
    /\ validation_results = NoRows
    /\ performance_metrics = NoRows
    /\ faults = MaxFaults
    /\ writes = MaxWrites
    /\ Idle

Call ==
    \/ \E t \in {"t1", "t3"}, h \in BOOLEAN :
          Start(Request("generate_prompt_context", t, h, 1, 1, "structured"))
    \/ \E t \in {"t1", "t3"} :
          Start(DefaultRequest("analyze_context_patterns", t, "structured"))
    \/ \E t \in {"t1", "t3"} :
          Start(DefaultRequest("get_context_health_score", t, "structured"))
    \/ \E t \in {"t1", "t3"}, f \in FormatTokens :
          Start(DefaultRequest("export_context_for_prompt", t, f))

Write ==
    \/ store_task(Task("t3", "done", Nothing, Nothing)) /\ Written
    \/ \E t \in {"t2", "t3"}, st \in {"pending", "done"} :
          update_task_status(t, st, Nothing) /\ Written
    \/ add_task_dependency("t1", "t1", "blocks") /\ Written

Next == Call \/ Steps \/ Write \/ Discard

Spec == Init /\ [][Next]_vars

\* the step that ends a request
Ends(op) == pc # "done" /\ pc' = "done" /\ req.op = op

\* the fetch of the step failed
FetchFailed == faults' < faults

\* the analytics of the context built from what the request fetched will fail:
\* the task has no list of affected files, or there are interactions and none
\* of them reports a time
AnalyticsWillFail ==
    LET interactions == Take(loc.ai_rows, req.max_interactions)
    IN  \/ Val(loc.task).affected_files = Nothing
        \/ /\ interactions # <<>>
           /\ \A i \in 1..Len(interactions) :
                  interactions[i].execution_time_ms \in {Nothing, Some(0)}

HealthDegraded(cause) ==
    /\ result'.value.overall_score = R(0)
    /\ result'.value.health_status = "error"
    /\ result'.value.error = cause

\* C2: get_context_health_score never raises; when a fetch fails, the task is
\* absent or the analytics fail, it returns the report with overall_score 0,
\* health_status "error" and the cause; and only then.
C2_HealthNeverRaises ==
    [][Ends("get_context_health_score") =>
          /\ ~result'.raised
          /\ IF FetchFailed THEN HealthDegraded("StorageFailure")
             ELSE IF pc = "get_task" THEN HealthDegraded("ValueError: Task not found")
             ELSE IF AnalyticsWillFail THEN HealthDegraded("TypeError")
             ELSE result'.value.health_status # "error"]_vars

\* the analytics of t1 failed and the request returned the degraded report
C2_Witness ==
    /\ pc = "done"
    /\ req.op = "get_context_health_score"
    /\ req.task_id = "t1"
    /\ ~result.raised
    /\ result.value = ErrorReport("TypeError")

\* C3: generate_prompt_context for an id with no stored task ends at its first
\* step without a PromptContext, and with the not-found error unless the fetch
\* itself failed, whatever include_history, the caps and the rows of that id.
C3_NotFound ==
    [][(/\ pc = "get_task"
        /\ req.op = "generate_prompt_context"
        /\ req.task_id \notin DOMAIN tasks
        /\ pc' # pc)
       => /\ pc' = "done"
          /\ result'.raised
          /\ ~FetchFailed => result' = Raised("ValueError: Task not found")]_vars

\* t3 is not stored, an interaction is stored for it, history was asked for
C3_Witness ==
    /\ pc = "done"
    /\ req.op = "generate_prompt_context"
    /\ req.task_id = "t3"
    /\ req.include_history
    /\ "t3" \notin DOMAIN tasks
    /\ ai_interactions["t3"] # <<>>
    /\ result = Raised("ValueError: Task not found")

---------------------------------------------------------------------------
(* SpecPure: the synchronous analyses applied to inputs of bounded size *)

MaxScore == 10          \* complexity_score ranges over 0..10
MaxFiles == 7           \* affected files of a task
MaxDeps == 5            \* resolved parents of a task
MaxHistory == 7         \* validation records handed to an analysis
MaxTimes == 4           \* execution-time values handed to the trend

\* execution times in ms: 90 and 110 are 0.9 and 1.1 times 100
TimeValues == {90, 100, 110, 200}

ValidationStatuses == {"passed", "failed"}

RECURSIVE SeqsUpTo(_, _)
\* the sequences over S of length at most n
SeqsUpTo(S, n) ==
    IF n = 0 THEN {<<>>}
    ELSE LET shorter == SeqsUpTo(S, n - 1)
         IN  shorter \cup {Append(q, x) : q \in shorter, x \in S}

ValidationRow(status) == [status |-> status]

\* a PromptContext as far as _analyze_complexity reads it
ComplexityInput(complexity_score, affected_files, dependency_count) ==
    [task_summary |-> [id |-> "t1", status |-> "pending",
                       complexity_score |-> complexity_score,
                       affected_files |-> affected_files],
     dependency_context |->
         IF dependency_count = 0
         THEN [dependencies |-> <<>>, has_dependencies |-> FALSE]
         ELSE [has_dependencies |-> TRUE, total_dependencies |-> dependency_count],
     requirements_context |-> Nothing,
     task_id |-> "t1"]

Apply(request, outcome) ==
    /\ pc = "idle"
    /\ pc' = "done"
    /\ req' = request
    /\ result' = outcome
    /\ UNCHANGED <<storeVars, faults, writes, loc>>

ApplyAnalyzeComplexity ==
    \E score \in {Nothing} \cup {Some(n) : n \in 0..MaxScore},
       files \in {Nothing} \cup {Some(n) : n \in 0..MaxFiles},
       deps \in 0..MaxDeps :
        Apply([complexity_score |-> score, affected_files |-> files,
               dependency_count |-> deps, op |-> "_analyze_complexity"],
              analyze_complexity(ComplexityInput(score, files, deps)))

ApplyCalculateValidationTrend ==
    \E statuses \in SeqsUpTo(ValidationStatuses, MaxHistory) :
        Apply([op |-> "_calculate_validation_trend", statuses |-> statuses],
              Returned(calculate_validation_trend(
                  [i \in 1..Len(statuses) |-> ValidationRow(statuses[i])])))

ApplyAnalyzeValidations ==
    \E statuses \in SeqsUpTo(ValidationStatuses, MaxHistory), given \in BOOLEAN :
        Apply([op |-> "_analyze_validations", statuses |-> statuses,
               given |-> given],
              Returned(analyze_validations(
                  IF given
                  THEN Some([i \in 1..Len(statuses) |-> ValidationRow(statuses[i])])
                  ELSE Nothing)))

ApplyCalculatePerformanceTrend ==
    \E execution_times \in SeqsUpTo(TimeValues, MaxTimes) :
        Apply([execution_times |-> execution_times,
               op |-> "_calculate_performance_trend"],
              Returned(calculate_performance_trend(execution_times)))

MaxEntries == 3         \* entries of the history given to _analyze_interactions
EntryTimes == {Nothing, Some(0), Some(100), Some(200)}

InteractionEntries(q) ==
    [i \in 1..Len(q) |-> [success |-> q[i][1], execution_time_ms |-> q[i][2]]]

ApplyAnalyzeInteractions ==
    \E q \in SeqsUpTo(BOOLEAN \X EntryTimes, MaxEntries), given \in BOOLEAN :
        Apply([interactions |-> InteractionEntries(q), op |-> "_analyze_interactions",
               given |-> given],
              Returned(analyze_interactions(
                  IF given THEN Some(InteractionEntries(q)) ELSE Nothing)))

InitPure ==
    /\ tasks = [t \in {"t1"} |-> Task("t1", "pending", Nothing, Nothing)]
    /\ task_dependencies = <<>>
    /\ task_context = NoRows
    /\ ai_interactions = NoRows
    /\ validation_results = NoRows
    /\ performance_metrics = NoRows
    /\ faults = 0
    /\ writes = 0
    /\ Idle

NextPure ==
    \/ ApplyAnalyzeComplexity
    \/ ApplyCalculateValidationTrend
    \/ ApplyAnalyzeValidations
    \/ ApplyCalculatePerformanceTrend
    \/ ApplyAnalyzeInteractions
    \/ Discard

SpecPure == InitPure /\ [][NextPure]_vars

Applied(op) == pc = "done" /\ req.op = op

\* the factor and the bucket as the specification words them
SpecFactor(complexity_score, affected_files_count, dependency_count) ==
    (IF complexity_score > 7 THEN 2 ELSE IF complexity_score > 5 THEN 1 ELSE 0)
    + (IF affected_files_count > 5 THEN 2
       ELSE IF affected_files_count > 2 THEN 1 ELSE 0)
    + (IF dependency_count > 3 THEN 1 ELSE 0)

SpecBucket(factor) ==
    IF factor >= 4 THEN "very_high"
    ELSE IF factor = 3 THEN "high"
    ELSE IF factor = 2 THEN "medium"
    ELSE "low"

\* _analyze_complexity returned for a task with a score and a list of files
ComplexityAnalysed ==
    /\ Applied("_analyze_complexity")
    /\ IsSome(req.complexity_score)
    /\ IsSome(req.affected_files)
    /\ ~result.raised

\* C7: for every complexity_score in 0..10, every file count and every
\* dependency count, _analyze_complexity reports the bucket of the factor
\* (2 if score > 7, else 1 if > 5) + (2 if files > 5, else 1 if > 2)
\* + (1 if dependencies > 3): very_high from 4, high at 3, medium at 2, else low.
C7_ComplexityBucket ==
    ComplexityAnalysed =>
        /\ result.value.overall_complexity =
               SpecBucket(SpecFactor(Val(req.complexity_score),
                                     Val(req.affected_files), req.dependency_count))
        /\ result.value.affected_files_count = Val(req.affected_files)
        /\ result.value.dependency_count = req.dependency_count

\* Scenario A: score 8, 6 files, 4 dependencies: factor 5, very_high
C7_Witness ==
    /\ ComplexityAnalysed
    /\ req.complexity_score = Some(8)
    /\ req.affected_files = Some(6)
    /\ req.dependency_count = 4
    /\ SpecFactor(8, 6, 4) = 5
    /\ result.value.overall_complexity = "very_high"

Rank(bucket) ==
    CASE bucket = "low" -> 0
      [] bucket = "medium" -> 1
      [] bucket = "high" -> 2
      [] bucket = "very_high" -> 3

\* C8: the bucket reported for a score and a file count is never below the
\* bucket of a lower score or of a lower file count, the other inputs fixed.
C8_BucketMonotonic ==
    ComplexityAnalysed =>
        /\ \A lower \in 0..Val(req.complexity_score) :
               Rank(OverallComplexity(Some(lower), Val(req.affected_files),
                                      req.dependency_count))
                   <= Rank(result.value.overall_complexity)
        /\ \A fewer \in 0..Val(req.affected_files) :
               Rank(OverallComplexity(req.complexity_score, fewer,
                                      req.dependency_count))
                   <= Rank(result.value.overall_complexity)

\* score 8 with 6 files is very_high; one point or one file less is high
C8_Witness ==
    /\ ComplexityAnalysed
    /\ req.complexity_score = Some(8)
    /\ req.affected_files = Some(6)
    /\ req.dependency_count = 0
    /\ result.value.overall_complexity = "very_high"
    /\ OverallComplexity(Some(7), 6, 0) = "high"
    /\ OverallComplexity(Some(8), 5, 0) = "high"

\* the records from..to of a newest-first history that passed
Passes(statuses, from, to) ==
    Cardinality({i \in from..to : statuses[i] = "passed"})

\* the trend of a history of 3 or more records whose first `mid` records are
\* the recent half: the difference of the pass rates, recent - older, is
\* cross / (mid * rest)
TrendWithSplit(statuses, mid) ==
    LET rest == Len(statuses) - mid
        cross == Passes(statuses, 1, mid) * rest
                 - Passes(statuses, mid + 1, Len(statuses)) * mid
    IN  IF 10 * cross > mid * rest THEN "improving"
        ELSE IF 10 * cross < -(mid * rest) THEN "declining"
        ELSE "stable"

\* C9: _calculate_validation_trend returns insufficient_data for fewer than 3
\* records whatever they are; for 3 or more it splits the newest-first list at
\* the midpoint, len div 2, and returns improving if the recent pass rate
\* exceeds the older one by more than 0.1, declining if it is below it by more
\* than 0.1, stable otherwise.
C9_ValidationTrend ==
    Applied("_calculate_validation_trend") =>
        result.value =
            IF Len(req.statuses) < 3 THEN "insufficient_data"
            ELSE TrendWithSplit(req.statuses, Len(req.statuses) \div 2)

\* 7 records, recent rate 1/3 and older rate 1/4: within the margin, stable
C9_Witness ==
    /\ Applied("_calculate_validation_trend")
    /\ req.statuses = <<"passed", "failed", "failed", "passed", "failed", "failed",
                        "failed">>
    /\ result.value = "stable"

ScenarioB == <<"passed", "passed", "failed", "passed", "failed">>

\* _analyze_validations returned for a history that is not empty
ValidationsAnalysed ==
    /\ Applied("_analyze_validations")
    /\ req.given
    /\ req.statuses # <<>>

\* C10 as amended: the validation analysis reports the share of passed records
\* as pass_rate and the trend computed with the recent half being the first
\* floor(n/2) records; for [passed, passed, failed, passed, failed] that is
\* pass_rate 0.6 and improving, from recent = the first two records (rate 1)
\* and older = the last three (rate 1/3).
C10_ValidationAnalysis ==
    ValidationsAnalysed =>
        /\ result.value.has_validations
        /\ result.value.pass_rate =
               Frac(Passes(req.statuses, 1, Len(req.statuses)), Len(req.statuses))
        /\ result.value.recent_trend =
               IF Len(req.statuses) < 3 THEN "insufficient_data"
               ELSE TrendWithSplit(req.statuses, Len(req.statuses) \div 2)
        /\ req.statuses = ScenarioB =>
               /\ result.value.pass_rate = Frac(3, 5)
               /\ result.value.recent_trend = "improving"
               /\ Passes(ScenarioB, 1, 2) = 2
               /\ Passes(ScenarioB, 3, 5) = 1

\* Scenario B was analysed
C10_Witness ==
    /\ ValidationsAnalysed
    /\ req.statuses = ScenarioB
    /\ result.value.total_validations = 5
    /\ result.value.pass_rate = Frac(3, 5)
    /\ result.value.recent_trend = "improving"

\* C10 as stated: the trend is computed with the recent half being the first
\* ceil(n/2) records.
C10_RecentIsUpperHalf ==
    ValidationsAnalysed =>
        /\ result.value.pass_rate =
               Frac(Passes(req.statuses, 1, Len(req.statuses)), Len(req.statuses))
        /\ result.value.recent_trend =
               IF Len(req.statuses) < 3 THEN "insufficient_data"
               ELSE TrendWithSplit(req.statuses, (Len(req.statuses) + 1) \div 2)

---------------------------------------------------------------------------
(* SpecDeps: generate_prompt_context over stores that differ in the parents *)
(* of t1 and in what is stored for them                                     *)

MaxParents == 3         \* rows of task_dependencies with child t1

DependencyTypes == <<"blocks", "requires", "relates_to", "subtask">>

\* the table that gives t1 the parent list `parents`: one row per parent, of
\* distinct types so that a parent listed twice is two rows
EdgesOf(parents) ==
    [i \in 1..Len(parents) |->
        Edge(parents[i], "t1", DependencyTypes[((i - 1) % 4) + 1])]

InitDeps ==
    /\ \E st2 \in TaskStatus, st3 \in TaskStatus \cup {"absent"} :
          tasks = [t \in {"t1", "t2"} \cup (IF st3 = "absent" THEN {} ELSE {"t3"}) |->
                      IF t = "t1" THEN Task("t1", "pending", Some(5), Some(3))
                      ELSE IF t = "t2" THEN Task("t2", st2, Some(5), Some(3))
                      ELSE Task("t3", st3, Some(5), Some(3))]
    /\ \E parents \in SeqsUpTo({"t2", "t3"}, MaxParents) :
          task_dependencies = EdgesOf(parents)
    /\ task_context = NoRows
    /\ ai_interactions = NoRows
    /\ validation_results = NoRows
    /\ performance_metrics = NoRows
    /\ faults = 0
    /\ writes = 0
    /\ Idle

CallGenerate ==
    Start(Request("generate_prompt_context", "t1", TRUE, DefaultMaxInteractions,
                  DefaultMaxValidations, "structured"))

NextDeps == CallGenerate \/ Steps

SpecDeps == InitDeps /\ [][NextDeps]_vars

\* the rows of task_dependencies that give t1 a parent which is stored with a
\* status in S
ParentRowsWithStatus(S) ==
    {i \in 1..Len(task_dependencies) :
        /\ task_dependencies[i].child_task_id = "t1"
        /\ task_dependencies[i].parent_task_id \in DOMAIN tasks
        /\ tasks[task_dependencies[i].parent_task_id].status \in S}

HasParents == \E i \in 1..Len(task_dependencies) :
                  task_dependencies[i].child_task_id = "t1"

GeneratedForT1 ==
    /\ pc = "done"
    /\ req.op = "generate_prompt_context"
    /\ req.task_id = "t1"
    /\ ~result.raised

\* C1: for a task with a non-empty parent list the dependency context reports
\* is_ready = TRUE exactly when no resolved parent is pending, in-progress,
\* blocked or deferred, and its three counts are the numbers of resolved
\* parents that are done, pending or in-progress, and blocked or deferred.
C1_DependencyReadiness ==
    (GeneratedForT1 /\ HasParents) =>
        LET d == result.value.dependency_context
        IN  /\ d.has_dependencies
            /\ d.is_ready =
                   (ParentRowsWithStatus({"pending", "in-progress", "blocked",
                                          "deferred"}) = {})
            /\ d.completed_dependencies = Cardinality(ParentRowsWithStatus({"done"}))
            /\ d.pending_dependencies =
                   Cardinality(ParentRowsWithStatus({"pending", "in-progress"}))
            /\ d.blocked_dependencies =
                   Cardinality(ParentRowsWithStatus({"blocked", "deferred"}))

\* three parents, two of them done and one blocked: not ready
C1_Witness ==
    /\ GeneratedForT1
    /\ HasParents
    /\ result.value.dependency_context.completed_dependencies = 2
    /\ result.value.dependency_context.blocked_dependencies = 1
    /\ result.value.dependency_context.pending_dependencies = 0
    /\ ~result.value.dependency_context.is_ready

---------------------------------------------------------------------------
(* SpecHealth: get_context_health_score over stores that differ in the      *)
(* history, the metrics and the complexity of t1                            *)

MaxInteractions == 2    \* rows of ai_interactions for t1
MaxValidations == 5     \* rows of validation_results for t1
MaxMetrics == 3         \* rows of performance_metrics for t1

InteractionRows(q) ==
    [i \in 1..Len(q) |->
        [n |-> i, success |-> q[i][1], execution_time_ms |-> q[i][2]]]
ValidationRowsOf(q) == [i \in 1..Len(q) |-> [n |-> i, status |-> q[i]]]
MetricRowsOf(q) ==
    [i \in 1..Len(q) |-> [n |-> i, metric_value |-> q[i][2], metric_type |-> q[i][1]]]

\* stored oldest first
SomeInteractions ==
    {<<>>, <<<<TRUE, Some(1)>>>>, <<<<TRUE, Some(8900)>>>>,
     <<<<FALSE, Some(20000)>>>>}
SomeValidations == {<<>>, <<"passed">>, <<"failed">>, <<"passed", "failed", "failed">>}
SomeMetrics ==
    {<<>>,
     <<<<"execution_time", 200>>, <<"execution_time", 200>>, <<"execution_time", 100>>>>,
     <<<<"execution_time", 100>>, <<"execution_time", 100>>, <<"execution_time", 200>>>>}
SomeTasks ==
    {Task("t1", "pending", Some(1), Some(0)), Task("t1", "pending", Some(8), Some(0)),
     Task("t1", "pending", Some(8), Some(3)), Task("t1", "pending", Some(8), Some(6)),
     Task("t1", "pending", Nothing, Nothing)}

AllInteractions ==
    SeqsUpTo(BOOLEAN \X {Nothing, Some(1), Some(8900), Some(20000)}, MaxInteractions)
AllValidations == SeqsUpTo(ValidationStatuses, MaxValidations)
AllMetrics ==
    SeqsUpTo({<<"execution_time", 100>>, <<"execution_time", 200>>, <<"memory", 100>>},
             MaxMetrics)

SomeParents == {<<>>, <<"t2", "t2", "t2", "t2">>}

HealthInputs ==
    (AllInteractions \X SomeValidations \X {<<>>}
        \X {Task("t1", "pending", Some(1), Some(0))} \X {<<>>})
    \cup (SomeInteractions \X AllValidations \X {<<>>}
        \X {Task("t1", "pending", Some(1), Some(0))} \X {<<>>})
    \cup ({<<>>} \X {<<>>} \X AllMetrics
        \X {Task("t1", "pending", Some(1), Some(0))} \X {<<>>})
    \cup (SomeInteractions \X SomeValidations \X SomeMetrics \X SomeTasks
        \X SomeParents)

InitHealth ==
    /\ \E input \in HealthInputs :
        /\ ai_interactions = [NoRows EXCEPT !["t1"] = InteractionRows(input[1])]
        /\ validation_results = [NoRows EXCEPT !["t1"] = ValidationRowsOf(input[2])]
        /\ performance_metrics = [NoRows EXCEPT !["t1"] = MetricRowsOf(input[3])]
        /\ tasks = [t \in {"t1", "t2"} |->
                       IF t = "t1" THEN input[4]
                       ELSE Task("t2", "done", Some(1), Some(0))]
        /\ task_dependencies = EdgesOf(input[5])
    /\ task_context = NoRows
    /\ faults = 0
    /\ writes = 0
    /\ Idle

CallHealth == Start(DefaultRequest("get_context_health_score", "t1", "structured"))

NextHealth == CallHealth \/ Steps

SpecHealth == InitHealth /\ [][NextHealth]_vars

\* a health request has returned
HealthReturned ==
    /\ pc = "done"
    /\ req.op = "get_context_health_score"
    /\ ~result.raised

\* it returned a report of scores, not the degraded report
HealthScored == HealthReturned /\ result.value.health_status # "error"

InRange(x) == RGe(x, R(0)) /\ RLe(x, R(100))

C5_StatusAgreesWithReportedScore ==
    HealthScored =>
        LET overall_score == result.value.overall_score
            health_status == result.value.health_status
        IN  /\ (health_status = "excellent") <=> RGe(overall_score, R(80))
            /\ (health_status = "good") <=>
                   (RGe(overall_score, R(60)) /\ RLt(overall_score, R(80)))
            /\ (health_status = "fair") <=>
                   (RGe(overall_score, R(40)) /\ RLt(overall_score, R(60)))
            /\ (health_status = "poor") <=> RLt(overall_score, R(40))

\* the analytics report of the context the request fetched
AnalyticsOfRequest ==
    ContextAnalytics(PromptContextOf(req, loc, MetricRows(req.task_id))).value

\* the component formulas as the specification words them
SpecInteractionHealth(interaction_patterns) ==
    IF ~interaction_patterns.has_interactions THEN R(50)
    ELSE LET avg_time == interaction_patterns.avg_execution_time_ms
             time_score ==
                 IF IsSome(avg_time)
                 THEN RMax(R(0), RSub(R(100), RDiv(Val(avg_time), R(100))))
                 ELSE R(100)
         IN  RAdd(RMul(interaction_patterns.success_rate, R(70)),
                  RMul(time_score, Frac(3, 10)))

SpecValidationHealth(validation_trends) ==
    IF ~validation_trends.has_validations THEN R(50)
    ELSE LET trend_bonus ==
                 IF validation_trends.recent_trend = "improving" THEN 10
                 ELSE IF validation_trends.recent_trend = "declining" THEN -20
                 ELSE 0
             raw == RAdd(RMul(validation_trends.pass_rate, R(100)), R(trend_bonus))
         IN  IF RLt(raw, R(0)) THEN R(0) ELSE IF RGt(raw, R(100)) THEN R(100) ELSE raw

SpecPerformanceHealth(performance_analysis) ==
    IF ~performance_analysis.has_performance_data THEN R(50)
    ELSE IF performance_analysis.execution_time_trend = "improving" THEN R(90)
    ELSE IF performance_analysis.execution_time_trend = "stable" THEN R(70)
    ELSE IF performance_analysis.execution_time_trend = "declining" THEN R(40)
    ELSE R(50)

SpecComplexityHealth(complexity_indicators) ==
    IF complexity_indicators.overall_complexity = "low" THEN R(90)
    ELSE IF complexity_indicators.overall_complexity = "medium" THEN R(70)
    ELSE IF complexity_indicators.overall_complexity = "high" THEN R(50)
    ELSE IF complexity_indicators.overall_complexity = "very_high" THEN R(30)
    ELSE R(50)

\* 0.30 i + 0.30 v + 0.20 p + 0.20 c
SpecWeightedSum(scores) ==
    Frac(3 * scores.interaction_health[1] * scores.validation_health[2]
             * scores.performance_health[2] * scores.complexity_health[2]
         + 3 * scores.validation_health[1] * scores.interaction_health[2]
             * scores.performance_health[2] * scores.complexity_health[2]
         + 2 * scores.performance_health[1] * scores.interaction_health[2]
             * scores.validation_health[2] * scores.complexity_health[2]
         + 2 * scores.complexity_health[1] * scores.interaction_health[2]
             * scores.validation_health[2] * scores.performance_health[2],
         10 * scores.interaction_health[2] * scores.validation_health[2]
            * scores.performance_health[2] * scores.complexity_health[2])

\* C6: the four component scores of a report are the ones the component
\* formulas give for the analytics report, and the overall score is their sum
\* weighted 0.30, 0.30, 0.20, 0.20: that sum decides the health_status, and the
\* report carries it rounded to one decimal.
C6_ComponentFormulas ==
    HealthScored =>
        LET analytics == AnalyticsOfRequest
            scores == result.value.component_scores
            overall == SpecWeightedSum(scores)
            distance == RSub(result.value.overall_score, overall)
        IN  /\ scores.interaction_health =
                   SpecInteractionHealth(analytics.interaction_patterns)
            /\ scores.validation_health =
                   SpecValidationHealth(analytics.validation_trends)
            /\ scores.performance_health =
                   SpecPerformanceHealth(analytics.performance_metrics)
            /\ scores.complexity_health =
                   SpecComplexityHealth(analytics.complexity_indicators)
            /\ RLe(distance, Frac(1, 20)) /\ RGe(distance, Frac(-1, 20))
            /\ (result.value.overall_score[1] * 10) % result.value.overall_score[2] = 0
            /\ result.value.health_status =
                   (IF RGe(overall, R(80)) THEN "excellent"
                    ELSE IF RGe(overall, R(60)) THEN "good"
                    ELSE IF RGe(overall, R(40)) THEN "fair"
                    ELSE "poor")

\* interactions, validations and metrics are all stored and the task is not
\* of low complexity
C6_Witness ==
    /\ HealthScored
    /\ result.value.component_scores.interaction_health = Frac(733, 10)
    /\ result.value.component_scores.validation_health = Frac(40, 3)
    /\ result.value.component_scores.performance_health = R(90)
    /\ result.value.component_scores.complexity_health = R(70)

---------------------------------------------------------------------------
(* Properties of the performance trend, checked under SpecPure *)

RECURSIVE SumOf(_, _, _)
\* values[from] + ... + values[to]
SumOf(values, from, to) ==
    IF from > to THEN 0 ELSE values[from] + SumOf(values, from + 1, to)

\* C11: _calculate_performance_trend returns insufficient_data below 3 values;
\* otherwise it splits the newest-first values at the midpoint, len div 2, and
\* returns improving if the recent average is < 0.9 times the older average,
\* declining if it is > 1.1 times the older average, stable otherwise.
C11_PerformanceTrend ==
    Applied("_calculate_performance_trend") =>
        LET values == req.execution_times
            half == Len(values) \div 2
            rest == Len(values) - half
            recent == SumOf(values, 1, half)
            older == SumOf(values, half + 1, Len(values))
        IN  result.value =
                IF Len(values) < 3 THEN "insufficient_data"
                ELSE IF 10 * recent * rest < 9 * older * half THEN "improving"
                ELSE IF 10 * recent * rest > 11 * older * half THEN "declining"
                ELSE "stable"

\* the recent average is exactly 0.9 times the older one: stable
C11_Witness ==
    /\ Applied("_calculate_performance_trend")
    /\ req.execution_times = <<90, 100, 100>>
    /\ result.value = "stable"

---------------------------------------------------------------------------
(* SpecAnalytics: analyze_context_patterns over the stores of SpecHealth *)

CallAnalyze == Start(DefaultRequest("analyze_context_patterns", "t1", "structured"))

NextAnalytics == CallAnalyze \/ Steps

SpecAnalytics == InitHealth /\ [][NextAnalytics]_vars

\* analyze_context_patterns returned an analytics report
Analysed ==
    /\ pc = "done"
    /\ req.op = "analyze_context_patterns"
    /\ ~result.raised

ComplexityNote(analytics, level, text) ==
    IF analytics.complexity_indicators.overall_complexity = level
    THEN <<text>> ELSE <<>>

\* the advisories of the rules after the complexity rule, in their order
LaterAdvisories(analytics) ==
    LET interactions == analytics.interaction_patterns
        validations == analytics.validation_trends
        performance == analytics.performance_metrics
        Advise(condition, text) == IF condition THEN <<text>> ELSE <<>>
    IN  Advise(analytics.complexity_indicators.dependency_count > 3,
               "High number of dependencies - verify all prerequisites are completed")
        \o Advise(interactions.has_interactions
                    /\ RGt(interactions.error_rate, Frac(3, 10)),
               "High error rate in AI interactions - review prompts and context quality")
        \o Advise(interactions.has_interactions
                    /\ RGt(Val(interactions.avg_execution_time_ms), R(5000)),
               "Long AI interaction times - consider optimizing prompts or context size")
        \o Advise(validations.has_validations
                    /\ RLt(validations.pass_rate, Frac(7, 10)),
               "Low validation pass rate - review code quality and testing strategy")
        \o Advise(validations.has_validations
                    /\ validations.recent_trend = "declining",
               "Validation quality is declining - investigate recent changes")
        \o Advise(performance.has_performance_data
                    /\ performance.execution_time_trend = "declining",
               "Performance is declining - consider optimization opportunities")
        \o Advise(~interactions.has_interactions,
               "No AI interactions recorded - ensure proper logging is enabled")
        \o Advise(~validations.has_validations,
               "No validation results - implement automated validation checks")

\* C12 as amended: the recommendations of an analytics report are exactly the
\* advisories of the matching rules, each once and in the fixed order, where
\* the first rule has two cases: very_high complexity advises decomposition
\* and high complexity advises thorough testing; then the eight other rules.
C12_Recommendations ==
    Analysed =>
        result.value.recommendations =
            ComplexityNote(result.value, "very_high",
                "Consider breaking this task into smaller subtasks due to very high complexity")
            \o ComplexityNote(result.value, "high",
                "Task has high complexity - ensure thorough testing and validation")
            \o LaterAdvisories(result.value)

\* four rules match at once
C12_Witness ==
    /\ Analysed
    /\ result.value.complexity_indicators.overall_complexity = "very_high"
    /\ result.value.complexity_indicators.dependency_count > 3
    /\ Len(result.value.recommendations) >= 5

\* C12 as stated: nine rules, and no advisory outside them.
C12_NineRules ==
    Analysed =>
        result.value.recommendations =
            ComplexityNote(result.value, "very_high",
                "Consider breaking this task into smaller subtasks due to very high complexity")
            \o LaterAdvisories(result.value)

---------------------------------------------------------------------------
(* Properties of the health report, checked under SpecHealth *)

InSeq(x, seq) == \E i \in 1..Len(seq) : seq[i] = x

\* C13: for a stored task with no stored interactions and no stored
\* validations the health report has interaction_health = 50 and
\* validation_health = 50, and its recommendations contain the advisory on
\* missing interactions and the advisory on missing validations.
C13_NoHistory ==
    (/\ HealthReturned
     /\ req.task_id \in DOMAIN tasks
     /\ ai_interactions[req.task_id] = <<>>
     /\ validation_results[req.task_id] = <<>>)
    => /\ "component_scores" \in DOMAIN result.value
       /\ result.value.component_scores.interaction_health = R(50)
       /\ result.value.component_scores.validation_health = R(50)
       /\ InSeq("No AI interactions recorded - ensure proper logging is enabled",
                result.value.recommendations)
       /\ InSeq("No validation results - implement automated validation checks",
                result.value.recommendations)


---------------------------------------------------------------------------
(* The format tokens of export_context_for_prompt, under Spec *)

\* an export request ended for a task that was found, and no fetch failed
Exported ==
    /\ pc = "done"
    /\ req.op = "export_context_for_prompt"
    /\ IsSome(loc.task)
    /\ ~(result.raised /\ result.error = "StorageFailure")

\* C14, as the code has it: for an existing task the export returns the text
\* of the requested format when the token is structured, narrative or json,
\* json being the dump of the whole PromptContext, and fails with the
\* unsupported-format ValueError for every other token, raw included.
C14_ExportFormats ==
    Exported =>
        IF req.format_type \in {"structured", "narrative", "json"}
        THEN /\ ~result.raised
             /\ result.value.format = req.format_type
             /\ req.format_type = "json" =>
                    result.value.context.task_id = req.task_id
        ELSE /\ result.raised
             /\ result.error = "ValueError: Unsupported format type"

\* exports of an existing task ended with each of the five tokens: here the
\* token raw was refused
C14_Witness ==
    /\ Exported
    /\ req.format_type = "raw"
    /\ result.raised
    /\ result.error = "ValueError: Unsupported format type"

\* C14 as stated: the accepted tokens are structured, narrative and raw, and
\* every other token is refused.
C14_RawAccepted ==
    Exported =>
        IF req.format_type \in {"structured", "narrative", "raw"}
        THEN ~result.raised
        ELSE /\ result.raised
             /\ result.error = "ValueError: Unsupported format type"

---------------------------------------------------------------------------
(* SpecHistory: requests for the context of t1 between the writes of
   ContextStorage to its histories *)

\* caps below, within and above what the storage queries return
InteractionCaps == {0, 2, AiInteractionsLimit + 1}
ValidationCaps == {0, 2, ValidationResultsLimit + 1}

InitHistory ==
    /\ tasks = [t \in {"t1", "t2"} |-> Task(t, "pending", Some(3), Some(1))]
    /\ task_dependencies = <<Edge("t2", "t1", "blocks")>>
    /\ task_context = NoRows
    /\ ai_interactions = NoRows
    /\ validation_results = NoRows
    /\ performance_metrics = NoRows
    /\ faults = 0
    /\ writes = 0
    /\ Idle

CallGenerateHistory ==
    \E h \in BOOLEAN, max_interactions \in InteractionCaps, max_validations \in ValidationCaps :
        Start(Request("generate_prompt_context", "t1", h, max_interactions,
                      max_validations, "structured"))

\* the calls of the writers that precede a request
StoreInteraction ==
    /\ pc = "idle"
    /\ store_ai_interaction("t1", TRUE, Some(100))
    /\ UNCHANGED <<faults, writes, pc, req, loc, result>>

StoreValidation ==
    /\ pc = "idle"
    /\ store_validation_result("t1", "passed")
    /\ UNCHANGED <<faults, writes, pc, req, loc, result>>

NextHistory ==
    \/ CallGenerateHistory
    \/ Steps
    \/ StoreInteraction
    \/ StoreValidation
    \/ Discard

SpecHistory == InitHistory /\ [][NextHistory]_vars

\* generate_prompt_context has returned a PromptContext
Generated ==
    /\ pc = "done"
    /\ req.op = "generate_prompt_context"
    /\ ~result.raised

\* the k newest of the stored rows, newest first
NewestOf(rows, k) == [i \in 1..Min(k, Len(rows)) |-> rows[Len(rows) + 1 - i]]

\* the records of a history field; None lists none
Listed(history) == IF IsSome(history) THEN Val(history) ELSE <<>>

\* C15, as the code has it: with include_history set, recent_interactions is
\* the min(max_interactions, 50, n) newest of the n stored interactions of the
\* task, newest first, and validation_history is the min(max_validations, 20,
\* m) newest of its m stored validations, newest first, with none skipped,
\* repeated or reordered; a field is None when nothing is stored for it or
\* include_history is not set.
C15_HistoryCaps ==
    Generated =>
        LET interactions == ai_interactions[req.task_id]
            validations == validation_results[req.task_id]
        IN  /\ result.value.recent_interactions =
                   IF req.include_history /\ interactions # <<>>
                   THEN Some(NewestOf(interactions,
                                      Min(req.max_interactions, AiInteractionsLimit)))
                   ELSE Nothing
            /\ result.value.validation_history =
                   IF req.include_history /\ validations # <<>>
                   THEN Some(NewestOf(validations,
                                      Min(req.max_validations, ValidationResultsLimit)))
                   ELSE Nothing

\* 52 interactions were stored and 51 were asked for: the 50 newest are
\* returned, the newest first
C15_Witness ==
    /\ Generated
    /\ req.include_history
    /\ req.max_interactions = AiInteractionsLimit + 1
    /\ Len(ai_interactions[req.task_id]) = AiInteractionsLimit + 2
    /\ Len(Val(result.value.recent_interactions)) = AiInteractionsLimit
    /\ Val(result.value.recent_interactions)[1].n = AiInteractionsLimit + 2

\* C15 as stated: with include_history set, recent_interactions is exactly the
\* min(max_interactions, n) newest of the n stored interactions, newest first,
\* and validation_history the min(max_validations, m) newest of the m stored
\* validations, for every non-negative cap.
C15_CallerCapsOnly ==
    (Generated /\ req.include_history) =>
        /\ Listed(result.value.recent_interactions) =
               NewestOf(ai_interactions[req.task_id], req.max_interactions)
        /\ Listed(result.value.validation_history) =
               NewestOf(validation_results[req.task_id], req.max_validations)

---------------------------------------------------------------------------
(* SpecContext: requests for the context of t1 between the writes of
   TaskStorage.store_task_context *)

ContextTypes == {"requirements", "codebase", "workflow"}
ContextValues == {"v1", "v2"}

CallGenerateContext ==
    Start(Request("generate_prompt_context", "t1", TRUE, DefaultMaxInteractions,
                  DefaultMaxValidations, "structured"))

\* the writes that precede a request
StoreContext ==
    /\ pc = "idle"
    /\ \E context_type \in ContextTypes, context_data \in ContextValues :
          store_task_context("t1", context_type, context_data)
    /\ UNCHANGED <<faults, writes, pc, req, loc, result>>

NextContext ==
    \/ CallGenerateContext
    \/ Steps
    \/ StoreContext
    \/ Discard

SpecContext == InitHistory /\ [][NextContext]_vars

\* the value of the most recent write of a type, if the type was written
LastWritten(task_id, context_type) ==
    LET IsOfType(row) == row.context_type = context_type
        rows == SelectSeq(task_context[task_id], IsOfType)
    IN  IF rows = <<>> THEN Nothing ELSE Some(rows[Len(rows)].context_data)

\* C16: after any sequence of store_task_context writes for a task, the value
\* the PromptContext carries for each of the context types requirements,
\* codebase and workflow is the value of the most recent write of that type;
\* an older value of the type is never returned.
C16_LastWriteWins ==
    Generated =>
        /\ result.value.requirements_context = LastWritten(req.task_id, "requirements")
        /\ result.value.codebase_context = LastWritten(req.task_id, "codebase")
        /\ result.value.workflow_state = LastWritten(req.task_id, "workflow")

---------------------------------------------------------------------------
(* The engine writes nothing, under Spec *)

\* C17: generate_prompt_context, analyze_context_patterns,
\* get_context_health_score and export_context_for_prompt are read-only: every
\* step of a request, from its call to its return or its failure, leaves the
\* stored tasks, dependency edges, context entries, interactions, validations
\* and performance samples as they were.
C17_ReadOnly ==
    [][<<pc, req, loc, result>>' # <<pc, req, loc, result>>
          => storeVars' = storeVars]_vars

\* a request failed on a fetch before any writer wrote: the store is the one
\* the behaviour started with
C17_Witness ==
    /\ pc = "done"
    /\ result.raised
    /\ result.error = "StorageFailure"
    /\ writes = MaxWrites
    /\ "t3" \notin DOMAIN tasks
    /\ Len(task_dependencies) = 2
    /\ performance_metrics = NoRows

---------------------------------------------------------------------------
(* SpecMock: the engine constructed over MockDatabaseManager, as the test
   suite constructs it *)

MaxMockRows == 3        \* interactions per task in the mock storage

\* MockContextStorage.get_task_context returns the same three contexts for
\* every task
MockContextRows ==
    <<[context_type |-> "workflow", context_data |-> "mock"],
      [context_type |-> "codebase", context_data |-> "mock"],
      [context_type |-> "requirements", context_data |-> "mock"]>>

\* the data the mock storages are initialised with: a task with two
\* interactions and two validations, a done task, and a task that depends on
\* the done one
InitMock ==
    /\ tasks = [t \in TaskIds |->
                   IF t = "t1" THEN Task("t1", "in-progress", Some(7), Some(3))
                   ELSE IF t = "t2" THEN Task("t2", "done", Some(8), Some(2))
                   ELSE Task("t3", "pending", Some(6), Some(3))]
    /\ task_dependencies = <<Edge("t2", "t3", "blocks")>>
    /\ task_context = NoRows
    /\ ai_interactions =
           [NoRows EXCEPT !["t1"] =
               InteractionRows(<<<<TRUE, Some(1250)>>, <<TRUE, Some(950)>>>>)]
    /\ validation_results =
           [NoRows EXCEPT !["t1"] = ValidationRowsOf(<<"passed", "passed">>)]
    /\ performance_metrics = NoRows
    /\ faults = 0
    /\ writes = 0
    /\ Idle

\* MockContextStorage.store_ai_interaction: append to the list of the task
mock_store_ai_interaction(task_id, success, execution_time_ms) ==
    /\ Len(ai_interactions[task_id]) < MaxMockRows
    /\ ai_interactions' =
           [ai_interactions EXCEPT ![task_id] =
               Append(@, [n |-> Len(@) + 1, success |-> success,
                          execution_time_ms |-> execution_time_ms])]
    /\ UNCHANGED <<tasks, task_dependencies, task_context, validation_results,
                   performance_metrics, faults, writes, pc, req, loc, result>>

MockStore ==
    \E t \in {"t1", "t3"}, success \in BOOLEAN :
        mock_store_ai_interaction(t, success, Some(1000))

\* MockContextStorage.get_task_context: the lists in the order of insertion,
\* all of them, in one call
MockGetTaskContext ==
    /\ pc = "context_rows"
    /\ Continue("get_dependencies",
                [loc EXCEPT !.context_rows = MockContextRows,
                            !.ai_rows = ai_interactions[req.task_id],
                            !.validation_rows = validation_results[req.task_id]])

\* _get_performance_context: self.db_manager.pool on a manager without a pool
MockGetPerformanceContext ==
    /\ pc = "get_metrics"
    /\ Finish(Raised("AttributeError"))
    /\ UNCHANGED <<storeVars, faults, writes, req, loc>>

CallMock ==
    \/ \E t \in {"t1", "t3"}, h \in BOOLEAN :
          Start(Request("generate_prompt_context", t, h, DefaultMaxInteractions,
                        DefaultMaxValidations, "structured"))
    \/ \E t \in {"t1", "t3"} :
          Start(DefaultRequest("get_context_health_score", t, "structured"))

NextMock ==
    \/ CallMock
    \/ FetchTask
    \/ MockGetTaskContext
    \/ FetchDependencies
    \/ FetchParent
    \/ MockGetPerformanceContext
    \/ MockStore
    \/ Discard

SpecMock == InitMock /\ [][NextMock]_vars

\* C18: against the mock database manager, generate_prompt_context for a
\* stored task returns a PromptContext with the requested task_id and a
\* task_summary holding the status, with recent_interactions not empty when an
\* interaction was stored for the task, and get_context_health_score for such
\* a task returns an overall_score greater than 0.
C18_MockEngine ==
    (pc = "done" /\ IsSome(loc.task)) =>
        /\ ~result.raised
        /\ req.op = "generate_prompt_context" =>
              /\ result.value.task_id = req.task_id
              /\ "status" \in DOMAIN result.value.task_summary
              /\ (req.include_history /\ loc.ai_rows # <<>>) =>
                    Listed(result.value.recent_interactions) # <<>>
        /\ req.op = "get_context_health_score" =>
              RGt(result.value.overall_score, R(0))

---------------------------------------------------------------------------
(* The keys of the health report, under Spec *)

\* a health request has ended
HealthEnded == pc = "done" /\ req.op = "get_context_health_score"

IsList(x) == DOMAIN x = 1..Len(x)

---------------------------------------------------------------------------
(* Parents that are not stored, under SpecDeps *)

\* the parents of t1 that are stored, in the order of the parent list
StoredParents ==
    LET IsStored(dep_id) == dep_id \in DOMAIN tasks
    IN  SelectSeq(get_task_dependencies("t1"), IsStored)

\* C20: when an id in the parent list of the task has no stored task,
\* _build_dependency_context does not fail: the id is left out of the resolved
\* list and of every count, and the other parents are resolved and listed in
\* the order of the parent list.
C20_DanglingParentSkipped ==
    (pc = "done" /\ req.op = "generate_prompt_context" /\ HasParents) =>
        /\ ~result.raised
        /\ LET resolved == result.value.dependency_context
           IN  /\ Len(resolved.dependencies) = Len(StoredParents)
               /\ \A i \in 1..Len(StoredParents) :
                     /\ resolved.dependencies[i].id = StoredParents[i]
                     /\ resolved.dependencies[i].status = tasks[StoredParents[i]].status
               /\ resolved.total_dependencies = Len(StoredParents)
               /\ resolved.completed_dependencies =
                      Cardinality(ParentRowsWithStatus({"done"}))
               /\ resolved.pending_dependencies =
                      Cardinality(ParentRowsWithStatus({"pending", "in-progress"}))
               /\ resolved.blocked_dependencies =
                      Cardinality(ParentRowsWithStatus({"blocked", "deferred"}))

\* the parent list is t3, t2, t3 and t3 is not stored: t2 alone is resolved
C20_Witness ==
    /\ GeneratedForT1
    /\ "t3" \notin DOMAIN tasks
    /\ get_task_dependencies("t1") = <<"t3", "t2", "t3">>
    /\ result.value.dependency_context.total_dependencies = 1
    /\ result.value.dependency_context.dependencies[1].id = "t2"

---------------------------------------------------------------------------
(* Failing fetches, under Spec *)

PropagatingOps ==
    {"generate_prompt_context", "analyze_context_patterns", "export_context_for_prompt"}

\* C21: when a storage fetch of generate_prompt_context,
\* analyze_context_patterns or export_context_for_prompt fails, the operation
\* ends in that step with the error of the fetch: the fetch is not issued
\* again, no later fetch of the aggregation is issued, what was fetched so far
\* is not returned, and the ended request issues nothing more.
C21_FailurePropagates ==
    [][/\ (FetchFailed /\ req.op \in PropagatingOps) =>
             /\ pc' = "done"
             /\ result' = Raised("StorageFailure")
             /\ loc' = loc
       /\ (pc = "done" /\ result = Raised("StorageFailure")) =>
             /\ pc' \in {"done", "idle"}
             /\ faults' = faults]_vars

\* the fetch of the validations of an export failed after the task, its
\* context rows and its interactions were fetched
C21_Witness ==
    /\ pc = "done"
    /\ req.op = "export_context_for_prompt"
    /\ result = Raised("StorageFailure")
    /\ IsSome(loc.task)
    /\ loc.ai_rows # <<>>
    /\ loc.dependencies = <<>>

---------------------------------------------------------------------------
(* SpecMetrics: generate_prompt_context for t1 over the samples stored in
   performance_metrics *)

MaxSamples == 22        \* samples stored for the task

\* n samples, oldest first: all execution times; execution times and memory
\* samples in turn; execution times of which every third is 0; no execution
\* time
SamplesOf(n, kind) ==
    [i \in 1..n |->
        <<IF kind = "memory" \/ (kind = "mixed" /\ i % 2 = 0)
          THEN "memory" ELSE "execution_time",
          IF kind = "zeros" /\ i % 3 = 0 THEN 0 ELSE 10 * i>>]

SomeSamples ==
    AllMetrics \cup
    {SamplesOf(n, kind) : n \in 0..MaxSamples,
                          kind \in {"times", "mixed", "zeros", "memory"}}

InitMetrics ==
    /\ tasks = [t \in {"t1", "t2"} |-> Task(t, "pending", Some(3), Some(1))]
    /\ task_dependencies = <<Edge("t2", "t1", "blocks")>>
    /\ task_context = NoRows
    /\ ai_interactions = NoRows
    /\ validation_results = NoRows
    /\ \E samples \in SomeSamples :
          performance_metrics = [NoRows EXCEPT !["t1"] = MetricRowsOf(samples)]
    /\ faults = 0
    /\ writes = 0
    /\ Idle

SpecMetrics == InitMetrics /\ [][NextDeps]_vars

\* the samples of the task the query considers, newest first
Considered == NewestOf(performance_metrics["t1"], PerformanceMetricsLimit)

IsExecutionTimeRow(row) == row.metric_type = "execution_time"

RECURSIVE SumMetricValues(_)
SumMetricValues(rows) ==
    IF rows = <<>> THEN 0 ELSE Head(rows).metric_value + SumMetricValues(Tail(rows))

\* C22: _get_performance_context considers only the 20 newest samples of the
\* task; it reports has_metrics = false when there are none, and otherwise
\* total_metrics = the number considered, avg_execution_time = the arithmetic
\* mean of the values of the considered samples of type execution_time (absent
\* when there is none), and recent_metrics = the min(10, total_metrics) newest
\* considered samples, newest first (a value of 0 being listed as None).
C22_PerformanceContext ==
    GeneratedForT1 =>
        LET performance == result.value.performance_context
            times == SelectSeq(Considered, IsExecutionTimeRow)
        IN  IF Considered = <<>>
            THEN performance = [has_metrics |-> FALSE]
            ELSE /\ performance.has_metrics
                 /\ performance.total_metrics = Len(Considered)
                 /\ performance.avg_execution_time =
                        IF times = <<>> THEN Nothing
                        ELSE Some(Frac(SumMetricValues(times), Len(times)))
                 /\ Len(performance.recent_metrics) =
                        Min(RecentMetricsCount, Len(Considered))
                 /\ \A i \in 1..Len(performance.recent_metrics) :
                       /\ performance.recent_metrics[i].type = Considered[i].metric_type
                       /\ performance.recent_metrics[i].value =
                              IF Considered[i].metric_value = 0 THEN Nothing
                              ELSE Some(Considered[i].metric_value)

\* 22 samples are stored, execution times and memory samples in turn: 20 are
\* considered, the 10 newest are listed, and the mean is over the 10
\* execution times among the 20
C22_Witness ==
    /\ GeneratedForT1
    /\ Len(performance_metrics["t1"]) = 22
    /\ performance_metrics["t1"][22].metric_type = "memory"
    /\ performance_metrics["t1"][21].metric_type = "execution_time"
    /\ result.value.performance_context.total_metrics = 20
    /\ Len(result.value.performance_context.recent_metrics) = 10
    /\ result.value.performance_context.recent_metrics[1].value = Some(220)
    /\ result.value.performance_context.avg_execution_time = Some(R(120))

---------------------------------------------------------------------------
(* _analyze_interactions, under SpecPure *)

\* the entry carries an execution time, 0 ms included
HasTime(interaction) == IsSome(interaction.execution_time_ms)

\* C23: for every non-empty interaction history _analyze_interactions reports
\* error_count = the number of entries with success = false, error_rate =
\* error_count / total, success_rate = 1 - error_rate, both rates in [0, 1],
\* and avg_execution_time_ms = the mean execution time over exactly the
\* entries that report a time, an entry reporting 0 ms included, absent when
\* no entry reports one; for an empty or absent history it reports
\* has_interactions = false.
C23_InteractionAnalysis ==
    Applied("_analyze_interactions") =>
        LET report == result.value
            list == req.interactions
            timed == SelectSeq(list, HasTime)
        IN  IF ~req.given \/ list = <<>>
            THEN report = [has_interactions |-> FALSE]
            ELSE /\ report.has_interactions
                 /\ report.error_count = Len(SelectSeq(list, IsFailure))
                 /\ report.error_rate = Frac(report.error_count, Len(list))
                 /\ report.success_rate = RSub(R(1), report.error_rate)
                 /\ RGe(report.error_rate, R(0)) /\ RLe(report.error_rate, R(1))
                 /\ RGe(report.success_rate, R(0)) /\ RLe(report.success_rate, R(1))
                 /\ report.avg_execution_time_ms =
                        IF timed = <<>> THEN Nothing
                        ELSE Some(Frac(SumTimes(timed), Len(timed)))

---------------------------------------------------------------------------
(* A task without parents, under SpecDeps *)

\* C24: for a task whose parent list is empty the dependency summary of the
\* PromptContext has has_dependencies = false and carries neither a readiness
\* flag nor a dependency count.
C24_NoParents ==
    (GeneratedForT1 /\ ~HasParents) =>
        LET summary == result.value.dependency_context
        IN  /\ summary.has_dependencies = FALSE
            /\ DOMAIN summary \cap
                   {"is_ready", "total_dependencies", "completed_dependencies",
                    "pending_dependencies", "blocked_dependencies"} = {}
            /\ summary.dependencies = <<>>

\* the context of t1 was generated while no row of task_dependencies exists
C24_Witness ==
    /\ GeneratedForT1
    /\ task_dependencies = <<>>
    /\ result.value.dependency_context.has_dependencies = FALSE

---------------------------------------------------------------------------
(* SpecTorn: one client reopens the parent t2 and completes the parent t3
   while the context of t1 is generated *)

NotFreeStatus == {"pending", "in-progress", "blocked", "deferred"}

InitTorn ==
    /\ tasks = [t \in TaskIds |->
                   IF t = "t2" THEN Task("t2", "done", Some(3), Some(1))
                   ELSE Task(t, "pending", Some(3), Some(1))]
    /\ task_dependencies = <<Edge("t2", "t1", "blocks"), Edge("t3", "t1", "blocks")>>
    /\ task_context = NoRows
    /\ ai_interactions = NoRows
    /\ validation_results = NoRows
    /\ performance_metrics = NoRows
    /\ faults = 0
    /\ writes = MaxWrites
    /\ Idle

\* update_task_status(t2, <a status that is not free>), then
\* update_task_status(t3, done), each at any moment
Reopen ==
    /\ tasks["t2"].status = "done"
    /\ \E status \in NotFreeStatus : update_task_status("t2", status, Nothing)
    /\ Written

Complete ==
    /\ tasks["t2"].status # "done"
    /\ tasks["t3"].status # "done"
    /\ update_task_status("t3", "done", Nothing)
    /\ Written

CallGenerateTorn ==
    \E h \in BOOLEAN :
        Start(Request("generate_prompt_context", "t1", h, DefaultMaxInteractions,
                      DefaultMaxValidations, "structured"))

NextTorn ==
    \/ CallGenerateTorn
    \/ Steps
    \/ Reopen
    \/ Complete
    \/ Discard

SpecTorn == InitTorn /\ [][NextTorn]_vars

\* every stored parent of t1 is free of the statuses that hold a task back
AllParentsFree ==
    \A i \in 1..Len(task_dependencies) :
        (/\ task_dependencies[i].child_task_id = "t1"
         /\ task_dependencies[i].parent_task_id \in DOMAIN tasks)
        => tasks[task_dependencies[i].parent_task_id].status \notin NotFreeStatus

\* C25: no lock or transaction spans the aggregation, so with writes between
\* the fetches the PromptContext can match no single state of the store. Here
\* no state of the store, at any moment, has all parents of t1 free; each
\* parent enters the summary with the status it has at its own fetch, and a
\* write to the store changes nothing the request has fetched. (The witness is
\* a returned summary with is_ready = true.)
C25_NoSingleSnapshot ==
    /\ [](~AllParentsFree)
    /\ [][/\ (pc = "get_parent" /\ loc' # loc) =>
                 loc'.dependency_info =
                     Append(loc.dependency_info,
                            DependencyInfo(tasks[loc.dependencies[loc.fetched + 1]]))
          /\ (tasks' # tasks) => (loc' = loc /\ pc' = pc /\ result' = result)]_vars

\* t2 was fetched while done, then reopened; t3 was completed, then fetched:
\* the summary says ready
C25_Witness ==
    /\ GeneratedForT1
    /\ result.value.dependency_context.total_dependencies = 2
    /\ result.value.dependency_context.completed_dependencies = 2
    /\ result.value.dependency_context.is_ready
    /\ tasks["t2"].status \in NotFreeStatus

---------------------------------------------------------------------------
(* SpecGraph: generate_prompt_context for t1 over every dependency graph on
   the three tasks, self-parents and cycles included; a request that can take
   a step eventually takes one *)

Ids == <<"t1", "t2", "t3">>

\* the rows of all edges between the tasks, in a fixed order of insertion
AllEdgeRows ==
    [i \in 1..(Len(Ids) * Len(Ids)) |->
        Edge(Ids[((i - 1) \div Len(Ids)) + 1], Ids[((i - 1) % Len(Ids)) + 1], "blocks")]

InitGraph ==
    /\ tasks = [t \in TaskIds |-> Task(t, "done", Some(3), Some(1))]
    /\ \E graph \in SUBSET (TaskIds \X TaskIds) :
          LET InGraph(row) == <<row.parent_task_id, row.child_task_id>> \in graph
          IN  task_dependencies = SelectSeq(AllEdgeRows, InGraph)
    /\ task_context = NoRows
    /\ ai_interactions = NoRows
    /\ validation_results = NoRows
    /\ performance_metrics = NoRows
    /\ faults = 0
    /\ writes = 0
    /\ Idle

SpecGraph == InitGraph /\ [][NextDeps]_vars /\ WF_vars(Steps)

\* C26: dependency resolution is one-hop and always terminates: for every
\* dependency graph, a task that is its own parent and cycles included, the
\* only parent list generate_prompt_context fetches is that of the requested
\* task, it issues exactly one task fetch per id of that list, in order, and
\* the request completes.
C26_OneHop ==
    /\ [][/\ (loc'.dependencies # loc.dependencies) =>
                (/\ pc = "get_dependencies"
                 /\ loc'.dependencies = get_task_dependencies(req.task_id))
          /\ (loc'.fetched # loc.fetched) =>
                (/\ pc = "get_parent"
                 /\ loc'.fetched = loc.fetched + 1
                 /\ loc'.dependency_info =
                        Append(loc.dependency_info,
                               DependencyInfo(tasks[loc.dependencies[loc'.fetched]])))]_vars
    /\ [](GeneratedForT1 =>
            (/\ loc.dependencies = get_task_dependencies("t1")
             /\ loc.fetched = Len(loc.dependencies)))
    /\ ((pc = "get_task") ~> GeneratedForT1)

\* t1 is its own parent and lies on the cycle t1, t2, t3: its two direct
\* parents t1 and t3 were fetched, once each, and the request completed
C26_Witness ==
    /\ GeneratedForT1
    /\ task_dependencies =
           <<Edge("t1", "t1", "blocks"), Edge("t1", "t2", "blocks"),
             Edge("t2", "t3", "blocks"), Edge("t3", "t1", "blocks")>>
    /\ loc.dependencies = <<"t1", "t3">>
    /\ loc.fetched = 2

---------------------------------------------------------------------------
(* The analysis of every stored task, under SpecAnalytics *)

\* C27: for every existing task whose storage fetches all succeed,
\* analyze_context_patterns returns an analytics report instead of failing,
\* whatever is stored: also when there are interactions of which none reports
\* an execution time, and when the task has no list of affected files.
C27_AnalysisNeverFails ==
    (pc = "done" /\ req.op = "analyze_context_patterns" /\ IsSome(loc.task))
        => ~result.raised

----------------------------------------------------------------------------
(* What readiness says about the parents, under SpecDeps *)

\* the rows of task_dependencies that give t1 a parent
ParentRows ==
    {i \in 1..Len(task_dependencies) :
        task_dependencies[i].child_task_id = "t1"}

ReadyForT1 ==
    /\ GeneratedForT1
    /\ HasParents
    /\ result.value.dependency_context.is_ready

\* C28 as stated: whenever a dependency summary has is_ready = true, every id
\* of the parent list resolved to a stored task with status done, and
\* completed_dependencies equals the length of the parent list.
C28_ReadyMeansAllDone ==
    ReadyForT1 =>
        /\ \A i \in ParentRows :
              /\ task_dependencies[i].parent_task_id \in DOMAIN tasks
              /\ tasks[task_dependencies[i].parent_task_id].status = "done"
        /\ result.value.dependency_context.completed_dependencies =
               Cardinality(ParentRows)

\* C28 as amended: whenever a dependency summary has is_ready = true, every
\* parent that resolved to a stored task had status done or cancelled when it
\* was fetched, the parents that did not resolve are left out of the summary,
\* and completed_dependencies is the number of resolved parents less the
\* cancelled ones.
C28_ReadyMeansNoneOpen ==
    ReadyForT1 =>
        LET summary == result.value.dependency_context
            resolved == summary.dependencies
        IN  /\ \A k \in 1..Len(resolved) :
                  resolved[k].status \in {"done", "cancelled"}
            /\ Len(resolved) =
                   Cardinality({i \in ParentRows :
                       task_dependencies[i].parent_task_id \in DOMAIN tasks})
            /\ summary.completed_dependencies =
                   Len(resolved)
                       - Cardinality({k \in 1..Len(resolved) :
                             resolved[k].status = "cancelled"})

\* ready although the parent list of three entries names the done t2 twice
\* and the unstored t3 once
C28_Witness ==
    /\ ReadyForT1
    /\ Cardinality(ParentRows) = 3
    /\ "t3" \notin DOMAIN tasks
    /\ tasks["t2"].status = "done"
    /\ result.value.dependency_context.completed_dependencies = 2

----------------------------------------------------------------------------
(* The band of the overall score, under SpecHealth *)

\* C29: every health report that is not the degraded report has an
\* overall_score of at least 14 and at most 96, and the degraded report is the
\* only one with the score 0.
C29_ScoreBand ==
    HealthReturned =>
        IF HealthScored
        THEN /\ RGe(result.value.overall_score, R(14))
             /\ RLe(result.value.overall_score, R(96))
        ELSE result.value.overall_score = R(0)

\* the floor of the band: every interaction failed and was slow, every
\* validation failed, the execution times decline and the task is very complex
C29_Witness ==
    /\ HealthScored
    /\ result.value.component_scores.interaction_health = R(0)
    /\ result.value.component_scores.validation_health = R(0)
    /\ result.value.component_scores.performance_health = R(40)
    /\ result.value.component_scores.complexity_health = R(30)
    /\ result.value.overall_score = R(14)

\* the ceiling of the band is met as well
C29_Ceiling ==
    /\ HealthScored
    /\ result.value.overall_score = R(96)

----------------------------------------------------------------------------
(* When an export looks at its format token, under Spec *)

UnsupportedExport ==
    /\ req.op = "export_context_for_prompt"
    /\ req.format_type \notin {"structured", "narrative", "json"}

\* C30: an export with an unsupported format token fails with the not-found
\* error when its task is absent, and it fails with the invalid-argument error
\* only in the step of the last storage fetch of the aggregation, after the
\* task, the context rows, the histories, the parent list and every parent
\* have been fetched; it never returns a value.
C30_FormatCheckedLast ==
    [][(UnsupportedExport /\ pc # "done" /\ pc' = "done") =>
          /\ result'.raised
          /\ (pc = "get_task" /\ faults' = faults) =>
                 /\ req.task_id \notin DOMAIN tasks
                 /\ result' = Raised("ValueError: Task not found")
          /\ (result' = Raised("ValueError: Unsupported format type")) =>
                 /\ pc = "get_metrics"
                 /\ faults' = faults
                 /\ IsSome(loc.task)
                 /\ loc.fetched = Len(loc.dependencies)
          /\ (pc = "get_metrics" /\ faults' = faults) =>
                 result' = Raised("ValueError: Unsupported format type")]_vars

\* an export of the stored t1 with an unknown token failed on the token after
\* both parents were looked up
C30_Witness ==
    /\ pc = "done"
    /\ UnsupportedExport
    /\ req.task_id = "t1"
    /\ loc.fetched >= 2
    /\ result = Raised("ValueError: Unsupported format type")

\* an export of the unstored t3 with an unknown token failed on the task
C30_AbsentTask ==
    /\ pc = "done"
    /\ UnsupportedExport
    /\ req.task_id = "t3"
    /\ "t3" \notin DOMAIN tasks
    /\ result = Raised("ValueError: Task not found")

====
